---- MODULE Spec2Model ----
(***************************************************************************)
(* State-machine model of the supbot RAG engine:                           *)
(*   rag_module/rag_client.py  (add_document, search, delete_documents)    *)
(*   rag_module/utils.py       (clean_text)                                *)
(*   rag_module/embeddings.py  (get_embedding_service)                     *)
(*   slack-app/cache.py        (get_cached_embedding, cache_embedding)     *)
(*   slack-app/models.py       (RAGSearchResult, EmbeddingCacheEntry)      *)
(*                                                                         *)
(* Text is a sequence of tokens.  " " is a whitespace character, "<br>"    *)
(* stands for one complete markup tag, every other token is a visible      *)
(* character.  The vector store, the shared cache tier (Redis) and the     *)
(* embedding model are the environment: each call into them may raise,     *)
(* which an operation receives as a set F of injected faults.              *)
(***************************************************************************)
EXTENDS Integers, Sequences, FiniteSets, TLC

(* ------------------------------ bounds --------------------------------- *)
\* at most this many environment faults are injected into one operation
MaxFaults == 1
\* the clock stops after this many ticks
MaxTicks == 2
\* the largest top_k a caller passes
MaxTopK == 2
\* request threads that use the engine at the same time
NumThreads == 2
\* the longest text chunk_text is called on, the largest max_chunk_size, and
\* the iterations of its loop that are followed
MaxTextLen == 6
MaxChunkSize == 5
MaxIterations == 7
\* runs of the sync job that are followed
MaxRuns == 2

(* ------------------------- program constants --------------------------- *)
\* settings.cache_ttl_embeddings
cache_ttl_embeddings == 3600
\* settings.cache_ttl_responses, in seconds
cache_ttl_responses == 1800

\* the clock advances by half a time-to-live in one Tick
TickSeconds == cache_ttl_embeddings \div 2

(* --------------------------- input domains ----------------------------- *)
None == "None"

DocumentIds == { <<>>, <<" ">>, <<"d1">>, <<"d2">> }
Contents    == { <<>>, <<" ">>, <<"a">>, <<" ", "a">> }
Queries     == { <<>>, <<" ">>, <<"a">>, <<"<br>">> }
Metadatas   == { {}, {<<"title", "T">>, <<"type", "page">>} }
Filters     == { {}, {<<"type", "">>}, {<<"type", "issue">>} }
IdLists     == { <<>>, << <<"d1">> >>, << <<"d1">>, <<" ">> >>,
                 << <<"d1">>, <<"d2">> >>, << <<"d2">> >> }
\* the collections of the store, and the name a caller passes by default
CollectionNames == { "knowledge_base", "tickets" }
DefaultNames == { "knowledge_base" }

\* every call into the environment that can raise
Faults == { "chroma_ctor", "chroma_heartbeat", "get_or_create_collection",
            "redis_ping", "redis_get", "redis_parse", "redis_setex",
            "redis_delete", "model_load", "model_encode", "store_op",
            "list_collections", "collection_count", "encode_batch" }
FaultSets == { F \in SUBSET Faults : Cardinality(F) <= MaxFaults }

\* what the store does when collection.add names an id it already holds
DupPolicies == { "overwrite", "ignore", "raise" }

\* scores and distances are fixed-point numbers: One stands for 1.0
One == 2
\* distances the store may report: below 0, 0, 1.0 and above 1.0
Distances == { -1, 0, One, One + 1 }

(* ------------------------------ strings -------------------------------- *)
IsSpace(c) == c \in { " ", "\n" }
IsTag(c) == c = "<br>"

RECURSIVE lstrip(_)
lstrip(s) == IF s # <<>> /\ IsSpace(Head(s)) THEN lstrip(Tail(s)) ELSE s

RECURSIVE rstrip(_)
rstrip(s) ==
  IF s # <<>> /\ IsSpace(s[Len(s)]) THEN rstrip(SubSeq(s, 1, Len(s) - 1)) ELSE s

\* str.strip()
strip(s) == rstrip(lstrip(s))

\* variant: the test `not s`, without the strip
IsBlankNoStrip(s) == s = <<>>

\* the test `not s or not s.strip()`
IsBlank(s) == s = <<>> \/ strip(s) = <<>>

\* soup.get_text(): the markup is dropped, the characters are kept
RECURSIVE get_text(_)
get_text(s) ==
  IF s = <<>> THEN <<>>
  ELSE IF IsTag(Head(s)) THEN get_text(Tail(s))
  ELSE <<Head(s)>> \o get_text(Tail(s))

\* re.sub(r'\s+', ' ', text)
RECURSIVE collapse_ws(_)
collapse_ws(s) ==
  IF Len(s) < 2 THEN s
  ELSE IF IsSpace(s[1]) /\ IsSpace(s[2]) THEN collapse_ws(Tail(s))
  ELSE <<Head(s)>> \o collapse_ws(Tail(s))

\* variant: the markup is not removed
clean_text_keep_markup(text) ==
  IF text = <<>> THEN <<>> ELSE strip(collapse_ws(text))

\* the token alphabet has no script or style element and no character entity
clean_text(text) ==
  IF text = <<>> THEN <<>> ELSE strip(collapse_ws(get_text(text)))

\* dict.get(key, default) on a metadata map held as a set of <<key, value>>
MetaGet(metadata, key, default) ==
  IF \E p \in metadata : p[1] = key
  THEN (CHOOSE p \in metadata : p[1] = key)[2]
  ELSE default

(* ------------------------------- state --------------------------------- *)
VARIABLES
  chroma_client,      \* _chroma_client: None or the client handle
  chroma_collection,  \* _chroma_collection: None or the name of the collection held
  store,              \* the vector store: collection name -> set of documents
  embedding_model,    \* _embedding_model: None or "model"
  redis_enabled,      \* settings.redis_enabled
  redis_client,       \* _redis_client: None or "redis"
  redis,              \* the shared tier: set of cache entries
  memory_cache,       \* _memory_cache: set of cache entries
  now,                \* datetime.utcnow(), in seconds
  last,               \* the last engine operation: arguments, result, calls made
  threads,            \* request threads on first use: where each is, what was created
  chunker,            \* a call of chunk_text: its arguments, cursor and chunks so far
  sync,               \* the sync job: the source systems' records and the last run
  pipeline,           \* the ingestion pipeline: the records processed and the ids they were given
  chat,               \* the chat surface: the context and response caches and the last request
  workers             \* request threads inside an engine call: the step each is at, what it read

vars == << chroma_client, chroma_collection, store, embedding_model,
           redis_enabled, redis_client, redis, memory_cache, now, last, threads, chunker, sync, pipeline, chat, workers >>

\* the process globals and the two external stores, threaded through a handler
Globals == [ chroma_client |-> chroma_client,
             chroma_collection |-> chroma_collection,
             store |-> store,
             embedding_model |-> embedding_model,
             redis_client |-> redis_client,
             redis |-> redis,
             memory_cache |-> memory_cache ]

\* the record of an operation: its arguments (args), the clock when it ran,
\* the globals as it began (before), the store's answer to its query, and the
\* fields of its Outcome
NoArgs == [ document_id |-> <<>>, content |-> <<>>, metadata |-> {}, query |-> <<>>,
            top_k |-> 0, filters |-> {}, document_ids |-> <<>>,
            collection_name |-> None, documents |-> <<>>, embedding |-> <<>> ]
NoAnswer == [ rows |-> <<>>, distances |-> <<>>, reported |-> TRUE ]
NoGlobals == [ chroma_client |-> None, chroma_collection |-> None,
               store |-> [ n \in CollectionNames |-> {} ], embedding_model |-> None,
               redis_client |-> None, redis |-> {}, memory_cache |-> {} ]
NoOp == [ op |-> "none", args |-> NoArgs, time |-> 0, before |-> NoGlobals,
          answer |-> NoAnswer, ret |-> FALSE, results |-> <<>>, raised |-> FALSE,
          failed_at |-> None, calls |-> <<>>, fired |-> {}, embedded |-> <<>>,
          hit |-> FALSE, tier |-> None, expires_at |-> 0, vec |-> <<>>,
          count |-> 0, add_args |-> <<>> ]

(* ------------------------------ chunking ------------------------------- *)
\* Python's clamping of a slice bound i on a string of length n
SliceIndex(i, n) ==
  IF i < 0 THEN (IF i + n < 0 THEN 0 ELSE i + n) ELSE (IF i > n THEN n ELSE i)

\* text[a:b], with 0-based bounds
Slice(text, a, b) ==
  LET lo == SliceIndex(a, Len(text))
      hi == SliceIndex(b, Len(text))
  IN IF lo >= hi THEN <<>> ELSE SubSeq(text, lo + 1, hi)

SetMax(S) == CHOOSE x \in S : \A y \in S : y <= x

\* text.rfind(sub, a, b): the highest 0-based index in text[a:b] at which sub
\* begins, or -1
rfind(text, sub, a, b) ==
  LET lo == SliceIndex(a, Len(text))
      hi == SliceIndex(b, Len(text))
      found == { i \in lo..(hi - Len(sub)) : SubSeq(text, i + 1, i + Len(sub)) = sub }
  IN IF found = {} THEN -1 ELSE SetMax(found)

\* rag_module/utils.py lines 39-46: the end of the window that starts at start
SentenceLookback == 200
utils_window_end(text, start, max_chunk_size) ==
  LET end == start + max_chunk_size IN
  IF end < Len(text)
  THEN LET sentence_end == rfind(text, <<".">>, end - SentenceLookback, end)
       IN IF sentence_end # -1 THEN sentence_end + 1 ELSE end
  ELSE end

\* sync-job/data_processor.py lines 53-64, the same for DataProcessor.chunk_text
DataProcessor_window_end(text, start, max_chunk_size) ==
  LET end == start + max_chunk_size IN
  IF end < Len(text)
  THEN LET paragraph_end == rfind(text, <<"\n", "\n">>, start, end)
           sentence_end == rfind(text, <<".">>, start, end)
       IN IF paragraph_end # -1 /\ paragraph_end > start + (max_chunk_size \div 2)
          THEN paragraph_end + 2
          ELSE IF sentence_end # -1 /\ sentence_end > start + (max_chunk_size \div 2)
          THEN sentence_end + 1
          ELSE end
  ELSE end

window_end(fn, text, start, max_chunk_size) ==
  IF fn = "utils" THEN utils_window_end(text, start, max_chunk_size)
  ELSE DataProcessor_window_end(text, start, max_chunk_size)

\* variant: the next window starts beyond the end of this one
next_start_beyond(end, overlap) == end + overlap

\* line 53: start = end - overlap
next_start(end, overlap) == end - overlap

\* variant: a text that fits in one chunk is trimmed
short_text_stripped(text) == << strip(text) >>

\* lines 32-33: `if len(text) <= max_chunk_size: return [text]`
short_text(text) == << text >>

\* no call of chunk_text is in progress
NoChunker == [ pc |-> "idle", fn |-> None, text |-> <<>>, max_chunk_size |-> 0,
               overlap |-> 0, start |-> 0, chunks |-> <<>>, windows |-> <<>> ]

(* -------------------- ingestion: the source records -------------------- *)
\* the records processed in one behaviour, and the most chunks of a record
MaxRecords == 2
MaxChunks == 3

\* Confluence page ids and Zoho ticket ids are decimal numbers; a Jira issue
\* key is a project key, a dash and the issue's number
SourceTypes == { "confluence", "jira", "zoho_ticket" }
SourceIds(type) ==
  IF type = "jira"
  THEN { << "A", "-", "1" >>, << "A", "-", "1", "0" >>, << "A", "-", "1", "1" >> }
  ELSE { << "1" >>, << "1", "0" >>, << "1", "1" >> }

\* nothing was processed yet
NoPipeline == [ records |-> 0, produced |-> {} ]

(* ------------------------- chat surface: its state --------------------- *)
\* the requests handled in one behaviour
MaxRequests == 2

\* The context cache (keys rag:...) and the response cache (keys llm:...) are
\* the parts of Redis and of _memory_cache that hold those keys.  A missing
\* context (None) and an empty one are the same to every test in the code, and
\* both are the empty sequence here.
NoCaches == [ rag_redis |-> {}, rag_memory |-> {}, llm_redis |-> {},
              llm_memory |-> {} ]

\* no request was handled yet
NoRequest == [ handled |-> FALSE, query |-> <<>>, lookup |-> FALSE,
               cache_hit |-> FALSE, searched |-> FALSE, found |-> 0,
               rag_raised |-> FALSE, llm_calls |-> <<>>, response |-> <<>>,
               posted |-> <<>>,
               from_cache |-> FALSE, http |-> FALSE, fired |-> {} ]

NoChat == [ caches |-> NoCaches, request |-> NoRequest, requests |-> 0 ]

(* ------------------------ sync job: its sources ------------------------ *)
\* Confluence holds two spaces of one page each; a page is held as the chunks
\* chunk_text cuts its cleaned content into (none for a page too short to
\* ingest), with the chunks of its version before the last edit
SpaceKeys == { "A", "B" }
spaces_to_sync == << "A", "B" >>
PageId(space_key) == IF space_key = "A" THEN << "1" >> ELSE << "2" >>
PageContents == { <<>>, << <<"a">> >>, << <<"a">>, <<"b">> >> }
NoPage == [ chunks |-> <<>>, previous |-> <<>> ]
\* the page of space A is edited between runs; the page of space B has one
\* chunk and stays as it is
EditableSpaces == { "A" }
InitialPages ==
  [ k \in SpaceKeys |-> IF k \in EditableSpaces THEN NoPage
                        ELSE [ chunks |-> << <<"a">> >>, previous |-> << <<"a">> >> ] ]

\* the results dict of run_sync as it is created (lines 260-267)
NoResult == [ confluence_count |-> 0, jira_count |-> 0, total_count |-> 0,
              success |-> FALSE, errors |-> <<>> ]

\* the sync job has not run
NoSync == [ job |-> "none", run |-> 0, pages |-> InitialPages,
            incremental |-> FALSE, sync_jira |-> FALSE, fired |-> {},
            trace |-> <<>>, result |-> NoResult, health |-> FALSE,
            confluence_failed |-> FALSE, jira_failed |-> FALSE,
            jira_ran |-> FALSE, jira_returned |-> 0,
            store_after |-> [ n \in CollectionNames |-> {} ],
            pages_at_run |-> InitialPages ]

\* every request thread is about to call the engine; nothing was created yet
Threads == 1..NumThreads
NoThreads == [ pc |-> [ th \in Threads |-> "start" ], model_loads |-> 0,
               client_connects |-> 0, collection_gets |-> 0 ]

\* a request thread that has not called the engine yet: the operation it will
\* run, the text it embeds, the faults of its calls, the Redis client its
\* cache call obtained, the expiry of the entry it read, whether its lookup
\* missed, whether it ran the model, the vector it took, the faults that took
\* effect, what it returned
NoWorker == [ pc |-> "idle", op |-> "none", text |-> <<>>, faults |-> {},
              client |-> None, expires_at |-> 0, missed |-> FALSE,
              computed |-> FALSE, vec |-> <<>>, fired |-> {}, returned |-> None ]
NoWorkers == [ th \in Threads |-> NoWorker ]

Init ==
  /\ chroma_client = None
  /\ chroma_collection = None
  /\ store = [ n \in CollectionNames |-> {} ]
  /\ embedding_model = None
  /\ redis_enabled \in BOOLEAN
  /\ redis_client = None
  /\ redis = {}
  /\ memory_cache = {}
  /\ now = 0
  /\ last = NoOp
  /\ threads = NoThreads
  /\ chunker = NoChunker
  /\ sync = NoSync
  /\ pipeline = NoPipeline
  /\ chat = NoChat
  /\ workers = NoWorkers

(* ------------------------- embedding model ----------------------------- *)
\* SentenceTransformer.encode(text): a fixed-width vector that is a pure
\* function of the text; here the count of each token kind
Count(s, c) == Cardinality({ i \in 1..Len(s) : s[i] = c })
ModelEncode(text) == << Count(text, "a"), Count(text, " "), Count(text, "<br>") >>

\* Every helper below returns a record: g, the globals it leaves; ok, FALSE
\* when it raised; calls, the environment calls it made in order; fired, the
\* injected faults that took effect.
get_embedding_service(g, F) ==
  IF g.embedding_model # None
  THEN [ g |-> g, ok |-> TRUE, calls |-> <<>>, fired |-> {} ]
  ELSE IF "model_load" \in F
  THEN [ g |-> g, ok |-> FALSE, calls |-> <<"model.load">>, fired |-> {"model_load"} ]
  ELSE [ g |-> [g EXCEPT !.embedding_model = "model"], ok |-> TRUE,
         calls |-> <<"model.load">>, fired |-> {} ]

(* ------------------------ vector store gateway ------------------------- *)
get_chroma_client(g, F) ==
  IF g.chroma_client # None
  THEN [ g |-> g, ok |-> TRUE, calls |-> <<>>, fired |-> {} ]
  ELSE IF "chroma_ctor" \in F
  THEN [ g |-> g, ok |-> FALSE, calls |-> <<"chromadb.HttpClient">>,
         fired |-> {"chroma_ctor"} ]
  ELSE IF "chroma_heartbeat" \in F
  THEN \* the global was assigned before the heartbeat raised
       [ g |-> [g EXCEPT !.chroma_client = "client"], ok |-> FALSE,
         calls |-> <<"chromadb.HttpClient", "client.heartbeat">>,
         fired |-> {"chroma_heartbeat"} ]
  ELSE [ g |-> [g EXCEPT !.chroma_client = "client"], ok |-> TRUE,
         calls |-> <<"chromadb.HttpClient", "client.heartbeat">>, fired |-> {} ]

get_chroma_collection(g, collection_name, F) ==
  IF g.chroma_collection # None
  THEN [ g |-> g, ok |-> TRUE, calls |-> <<>>, fired |-> {} ]
  ELSE LET c == get_chroma_client(g, F) IN
       IF ~c.ok THEN c
       ELSE IF "get_or_create_collection" \in F
       THEN [ g |-> c.g, ok |-> FALSE,
              calls |-> c.calls \o <<"client.get_or_create_collection">>,
              fired |-> {"get_or_create_collection"} ]
       ELSE [ g |-> [c.g EXCEPT !.chroma_collection = collection_name], ok |-> TRUE,
              calls |-> c.calls \o <<"client.get_or_create_collection">>,
              fired |-> {} ]

(* --------------------------- embedding cache --------------------------- *)
\* _generate_cache_key: prefix and MD5 digest of the content; the digest is
\* modelled by the content itself (no two texts of the model collide)
generate_cache_key(prefix, content) == << prefix, content >>

CacheHas(cache, key) == \E e \in cache : e.key = key
CacheEntry(cache, key) == CHOOSE e \in cache : e.key = key
CacheDel(cache, key) == { e \in cache : e.key # key }
CachePut(cache, entry) == CacheDel(cache, entry.key) \cup { entry }

get_redis_client(g, F) ==
  IF g.redis_client = None /\ redis_enabled
  THEN IF "redis_ping" \in F
       THEN [ g |-> [g EXCEPT !.redis_client = None], val |-> None,
              calls |-> <<"redis.ping">>, fired |-> {"redis_ping"} ]
       ELSE [ g |-> [g EXCEPT !.redis_client = "redis"], val |-> "redis",
              calls |-> <<"redis.ping">>, fired |-> {} ]
  ELSE [ g |-> g, val |-> g.redis_client, calls |-> <<>>, fired |-> {} ]

\* variant: an entry is still served at the instant it expires
UnexpiredInclusive(entry, t) == entry.expires_at >= t

\* lines 72 and 82 of cache.py: entry.expires_at > datetime.utcnow()
Unexpired(entry, t) == entry.expires_at > t

\* a lookup that found nothing it may serve
Miss(g, calls, fired) ==
  [ g |-> g, hit |-> FALSE, vec |-> <<>>, tier |-> None, expires_at |-> 0,
    calls |-> calls, fired |-> fired ]

\* lines 79-87 of cache.py: the memory-tier half of get_cached_embedding
MemoryLookup(g, cache_key, t, calls, fired) ==
  IF CacheHas(g.memory_cache, cache_key)
  THEN LET entry == CacheEntry(g.memory_cache, cache_key) IN
       IF Unexpired(entry, t)
       THEN [ g |-> g, hit |-> TRUE, vec |-> entry.embedding, tier |-> "memory",
              expires_at |-> entry.expires_at, calls |-> calls \o <<"memory.get">>,
              fired |-> fired ]
       ELSE Miss([g EXCEPT !.memory_cache = CacheDel(g.memory_cache, cache_key)],
                 calls \o <<"memory.get", "memory.del">>, fired)
  ELSE Miss(g, calls \o <<"memory.get">>, fired)

\* lines 66-77 of cache.py, then the memory tier
RedisLookup(g, cache_key, F, t, calls, fired) ==
  IF "redis_get" \in F
  THEN Miss(g, calls \o <<"redis.get">>, fired \cup {"redis_get"})
  ELSE IF CacheHas(g.redis, cache_key)
  THEN IF "redis_parse" \in F
       THEN Miss(g, calls \o <<"redis.get">>, fired \cup {"redis_parse"})
       ELSE LET entry == CacheEntry(g.redis, cache_key) IN
            IF Unexpired(entry, t)
            THEN [ g |-> g, hit |-> TRUE, vec |-> entry.embedding, tier |-> "redis",
                   expires_at |-> entry.expires_at,
                   calls |-> calls \o <<"redis.get">>, fired |-> fired ]
            ELSE IF "redis_delete" \in F
            THEN Miss(g, calls \o <<"redis.get", "redis.delete">>,
                      fired \cup {"redis_delete"})
            ELSE MemoryLookup([g EXCEPT !.redis = CacheDel(g.redis, cache_key)],
                              cache_key, t,
                              calls \o <<"redis.get", "redis.delete">>, fired)
  ELSE MemoryLookup(g, cache_key, t, calls \o <<"redis.get">>, fired)

get_cached_embedding(g, text, F, t) ==
  IF IsBlank(text) THEN Miss(g, <<>>, {})
  ELSE
    LET cache_key == generate_cache_key("embedding", text)
        rc == get_redis_client(g, F)
    IN IF rc.val # None
       THEN RedisLookup(rc.g, cache_key, F, t, rc.calls, rc.fired)
       ELSE MemoryLookup(rc.g, cache_key, t, rc.calls, rc.fired)

\* EmbeddingCacheEntry.embedding_must_not_be_empty
embedding_must_not_be_empty(v) == v # <<>>

\* variant: the entry is built and then stored in neither tier
cache_embedding_not_stored(g, text, embedding, F, t) ==
  [ g |-> g, ok |-> IsBlank(text) \/ embedding_must_not_be_empty(embedding),
    calls |-> <<>>, fired |-> {} ]

cache_embedding(g, text, embedding, F, t) ==
  IF IsBlank(text) THEN [ g |-> g, ok |-> TRUE, calls |-> <<>>, fired |-> {} ]
  ELSE IF ~embedding_must_not_be_empty(embedding)
  THEN \* the entry is built before the try block: the ValueError propagates
       [ g |-> g, ok |-> FALSE, calls |-> <<>>, fired |-> {} ]
  ELSE
    LET ttl == cache_ttl_embeddings
        entry == [ key |-> generate_cache_key("embedding", text), text |-> text,
                   embedding |-> embedding, expires_at |-> t + ttl ]
        rc == get_redis_client(g, F)
    IN
    IF rc.val # None
    THEN IF "redis_setex" \in F
         THEN \* the exception skips the memory write and is swallowed
              [ g |-> rc.g, ok |-> TRUE, calls |-> rc.calls \o <<"redis.setex">>,
                fired |-> rc.fired \cup {"redis_setex"} ]
         ELSE [ g |-> [rc.g EXCEPT !.redis = CachePut(rc.g.redis, entry),
                                   !.memory_cache = CachePut(rc.g.memory_cache, entry)],
                ok |-> TRUE, calls |-> rc.calls \o <<"redis.setex", "memory.set">>,
                fired |-> rc.fired ]
    ELSE [ g |-> [rc.g EXCEPT !.memory_cache = CachePut(rc.g.memory_cache, entry)],
           ok |-> TRUE, calls |-> rc.calls \o <<"memory.set">>, fired |-> rc.fired ]

\* lines 99-111 and 233-245 of rag_client.py: the cached embedding, or encode
\* and cache.  failed_at names the call that raised into the caller, if any.
EmbedWithCache(g, text, F, t) ==
  LET c == get_cached_embedding(g, text, F, t) IN
  IF c.hit
  THEN [ g |-> c.g, failed_at |-> None, vec |-> c.vec, hit |-> TRUE, tier |-> c.tier,
         expires_at |-> c.expires_at, calls |-> c.calls, fired |-> c.fired ]
  ELSE
    LET s == get_embedding_service(c.g, F) IN
    IF ~s.ok
    THEN [ g |-> s.g, failed_at |-> "get_embedding_service", vec |-> <<>>,
           hit |-> FALSE, tier |-> None, expires_at |-> 0,
           calls |-> c.calls \o s.calls, fired |-> c.fired \cup s.fired ]
    ELSE IF "model_encode" \in F
    THEN [ g |-> s.g, failed_at |-> "model.encode", vec |-> <<>>, hit |-> FALSE,
           tier |-> None, expires_at |-> 0,
           calls |-> c.calls \o s.calls \o <<"model.encode">>,
           fired |-> c.fired \cup {"model_encode"} ]
    ELSE
      LET embedding == ModelEncode(text)
          w == cache_embedding(s.g, text, embedding, F, t)
      IN [ g |-> w.g, failed_at |-> IF w.ok THEN None ELSE "cache_embedding",
           vec |-> embedding, hit |-> FALSE, tier |-> None, expires_at |-> 0,
           calls |-> c.calls \o s.calls \o <<"model.encode">> \o w.calls,
           fired |-> c.fired \cup w.fired ]

(* ------------------------ vector store calls --------------------------- *)
\* collection.add(ids, embeddings, documents, metadatas); docs is a sequence of
\* [id, embedding, content, metadata].  The call is atomic (spec section 5).
\* dup is what the store does with an id it already holds.
collection_add(g, handle, docs, F, dup) ==
  LET ids == { docs[i].id : i \in 1..Len(docs) }
      held == g.store[handle]
      clash == { d \in held : d.id \in ids }
      new == { docs[i] : i \in 1..Len(docs) }
  IN
  IF "store_op" \in F
  THEN [ g |-> g, ok |-> FALSE, calls |-> <<"collection.add">>, fired |-> {"store_op"} ]
  ELSE IF Cardinality(ids) # Len(docs) \/ (clash # {} /\ dup = "raise")
  THEN [ g |-> g, ok |-> FALSE, calls |-> <<"collection.add">>, fired |-> {} ]
  ELSE IF dup = "ignore"
  THEN [ g |-> [g EXCEPT !.store[handle] =
                   held \cup { d \in new : \A c \in clash : c.id # d.id }],
         ok |-> TRUE, calls |-> <<"collection.add">>, fired |-> {} ]
  ELSE [ g |-> [g EXCEPT !.store[handle] = (held \ clash) \cup new],
         ok |-> TRUE, calls |-> <<"collection.add">>, fired |-> {} ]

\* collection.delete(ids): an id the collection does not hold is not an error
collection_delete(g, handle, ids, F) ==
  IF "store_op" \in F
  THEN [ g |-> g, ok |-> FALSE, calls |-> <<"collection.delete">>,
         fired |-> {"store_op"} ]
  ELSE [ g |-> [g EXCEPT !.store[handle] =
                   { d \in g.store[handle] : \A i \in 1..Len(ids) : ids[i] # d.id }],
         ok |-> TRUE, calls |-> <<"collection.delete">>, fired |-> {} ]

\* the documents a where clause selects: equality on every key of the clause
WhereMatches(held, where) == { d \in held : where \subseteq d.metadata }

(* ----------------------------- RAG engine ------------------------------ *)
\* What one engine call hands back: the globals it leaves, its return value
\* (ret for the bool-valued calls, results for search), whether an exception
\* left the call (raised), the step whose exception its except clause caught
\* (failed_at), the calls it made in order, the faults that took effect, and the
\* embedding step it took.
NoEmbed ==
  [ embedded |-> <<>>, hit |-> FALSE, tier |-> None, expires_at |-> 0, vec |-> <<>> ]

EmbedInfo(text, e) ==
  [ embedded |-> text, hit |-> e.hit, tier |-> e.tier, expires_at |-> e.expires_at,
    vec |-> e.vec ]

Outcome(g, ret, results, failed_at, calls, fired, e) ==
  [ g |-> g, ret |-> ret, results |-> results, raised |-> failed_at # None,
    failed_at |-> failed_at, calls |-> calls, fired |-> fired,
    embedded |-> e.embedded, hit |-> e.hit, tier |-> e.tier,
    expires_at |-> e.expires_at, vec |-> e.vec, count |-> 0, add_args |-> <<>> ]

\* `except Exception as e: ... return <default>`: the exception stops here
ExceptReturn(o, default) ==
  IF o.raised THEN [o EXCEPT !.raised = FALSE, !.ret = default, !.results = <<>>]
  ELSE o

\* lines 96-122: the try block of add_document
add_document_try(g, document_id, content, metadata, collection_name, F, dup, t) ==
  LET col == get_chroma_collection(g, collection_name, F) IN
  IF ~col.ok
  THEN Outcome(col.g, FALSE, <<>>, "get_chroma_collection", col.calls, col.fired,
               NoEmbed)
  ELSE
    LET e == EmbedWithCache(col.g, content, F, t) IN
    IF e.failed_at # None
    THEN Outcome(e.g, FALSE, <<>>, e.failed_at, col.calls \o e.calls, e.fired,
                 EmbedInfo(content, e))
    ELSE
      LET a == collection_add(e.g, e.g.chroma_collection,
                              << [ id |-> document_id, embedding |-> e.vec,
                                   content |-> content, metadata |-> metadata ] >>,
                              F, dup)
      IN IF a.ok
         THEN Outcome(a.g, TRUE, <<>>, None, col.calls \o e.calls \o a.calls,
                      e.fired, EmbedInfo(content, e))
         ELSE Outcome(a.g, FALSE, <<>>, "collection.add",
                      col.calls \o e.calls \o a.calls, e.fired \cup a.fired,
                      EmbedInfo(content, e))

\* variant: the try block has no except clause
add_document_no_except(g, document_id, content, metadata, collection_name, F, dup, t) ==
  IF IsBlank(document_id) THEN Outcome(g, FALSE, <<>>, None, <<>>, {}, NoEmbed)
  ELSE IF IsBlank(content) THEN Outcome(g, FALSE, <<>>, None, <<>>, {}, NoEmbed)
  ELSE IF metadata = {} THEN Outcome(g, FALSE, <<>>, None, <<>>, {}, NoEmbed)
  ELSE add_document_try(g, document_id, content, metadata, collection_name, F, dup, t)

add_document(g, document_id, content, metadata, collection_name, F, dup, t) ==
  IF IsBlank(document_id) THEN Outcome(g, FALSE, <<>>, None, <<>>, {}, NoEmbed)
  ELSE IF IsBlank(content) THEN Outcome(g, FALSE, <<>>, None, <<>>, {}, NoEmbed)
  ELSE IF metadata = {} THEN Outcome(g, FALSE, <<>>, None, <<>>, {}, NoEmbed)
  ELSE ExceptReturn(add_document_try(g, document_id, content, metadata,
                                     collection_name, F, dup, t), FALSE)

\* variant: only the upper limit is tested
score_upper_limit_only(v) == v <= One

\* RAGSearchResult.score_must_be_valid
score_must_be_valid(v) == 0 <= v /\ v <= One

\* line 271: 1 - distance, or 0.0 when the store reports no distances
Score(distance, reported) == IF reported THEN One - distance ELSE 0

\* variant: a row that fails validation ends the query with no results
FormatResultsAborting(rows, distances, reported) ==
  IF \E i \in 1..Len(rows) : ~score_must_be_valid(Score(distances[i], reported))
  THEN <<>>
  ELSE [ i \in 1..Len(rows) |->
           [ content |-> rows[i].content, metadata |-> rows[i].metadata,
             score |-> Score(distances[i], reported),
             title |-> MetaGet(rows[i].metadata, "title", "Untitled"),
             url |-> MetaGet(rows[i].metadata, "url", ""),
             type |-> MetaGet(rows[i].metadata, "type", "unknown") ] ]

\* lines 260-279: one RAGSearchResult per row of the answer that validates
RECURSIVE FormatResults(_, _, _)
FormatResults(rows, distances, reported) ==
  IF rows = <<>> THEN <<>>
  ELSE
    LET doc == Head(rows)
        score == Score(Head(distances), reported)
        rest == FormatResults(Tail(rows), Tail(distances), reported)
    IN IF score_must_be_valid(score)
       THEN << [ content |-> doc.content, metadata |-> doc.metadata, score |-> score,
                 title |-> MetaGet(doc.metadata, "title", "Untitled"),
                 url |-> MetaGet(doc.metadata, "url", ""),
                 type |-> MetaGet(doc.metadata, "type", "unknown") ] >> \o rest
       ELSE rest

\* the where clause search attaches: filters that are non-empty with a truthy value
SearchWhere(filters) ==
  IF filters # {} /\ (\E p \in filters : p[2] # "") THEN filters ELSE {}

\* lines 224-282: the try block of search; rows, distances, reported are the
\* store's answer to collection.query
search_try(g, query, top_k, filters, collection_name, F, rows, distances, reported, t) ==
  LET col == get_chroma_collection(g, collection_name, F) IN
  IF ~col.ok
  THEN Outcome(col.g, FALSE, <<>>, "get_chroma_collection", col.calls, col.fired,
               NoEmbed)
  ELSE
    LET clean_query == clean_text(query) IN
    IF clean_query = <<>>
    THEN Outcome(col.g, FALSE, <<>>, None, col.calls, {}, NoEmbed)
    ELSE
      LET e == EmbedWithCache(col.g, clean_query, F, t) IN
      IF e.failed_at # None
      THEN Outcome(e.g, FALSE, <<>>, e.failed_at, col.calls \o e.calls, e.fired,
                   EmbedInfo(clean_query, e))
      ELSE IF "store_op" \in F
      THEN Outcome(e.g, FALSE, <<>>, "collection.query",
                   col.calls \o e.calls \o <<"collection.query">>,
                   e.fired \cup {"store_op"}, EmbedInfo(clean_query, e))
      ELSE Outcome(e.g, TRUE, FormatResults(rows, distances, reported), None,
                   col.calls \o e.calls \o <<"collection.query">>, e.fired,
                   EmbedInfo(clean_query, e))

\* variant: top_k = 0 is let through
InvalidTopKNegative(top_k) == top_k < 0

\* line 219
InvalidTopK(top_k) == top_k <= 0

\* variant: the try block has no except clause
search_no_except(g, query, top_k, filters, collection_name, F, rows, distances, reported, t) ==
  IF IsBlank(query) THEN Outcome(g, FALSE, <<>>, None, <<>>, {}, NoEmbed)
  ELSE IF InvalidTopK(top_k) THEN Outcome(g, FALSE, <<>>, None, <<>>, {}, NoEmbed)
  ELSE search_try(g, query, top_k, filters, collection_name, F,
                  rows, distances, reported, t)

\* ret tells whether the query reached the store and was answered
search(g, query, top_k, filters, collection_name, F, rows, distances, reported, t) ==
  IF IsBlank(query) THEN Outcome(g, FALSE, <<>>, None, <<>>, {}, NoEmbed)
  ELSE IF InvalidTopK(top_k) THEN Outcome(g, FALSE, <<>>, None, <<>>, {}, NoEmbed)
  ELSE ExceptReturn(search_try(g, query, top_k, filters, collection_name, F,
                               rows, distances, reported, t), FALSE)

\* variant: only the first id of the list is passed to collection.delete
delete_documents_try_first(g, document_ids, collection_name, F) ==
  LET col == get_chroma_collection(g, collection_name, F) IN
  IF ~col.ok
  THEN Outcome(col.g, FALSE, <<>>, "get_chroma_collection", col.calls, col.fired,
               NoEmbed)
  ELSE LET d == collection_delete(col.g, col.g.chroma_collection,
                                  <<Head(document_ids)>>, F)
       IN IF d.ok
          THEN Outcome(d.g, TRUE, <<>>, None, col.calls \o d.calls, {}, NoEmbed)
          ELSE Outcome(d.g, FALSE, <<>>, "collection.delete",
                       col.calls \o d.calls, d.fired, NoEmbed)

\* lines 304-307: the try block of delete_documents
delete_documents_try(g, document_ids, collection_name, F) ==
  LET col == get_chroma_collection(g, collection_name, F) IN
  IF ~col.ok
  THEN Outcome(col.g, FALSE, <<>>, "get_chroma_collection", col.calls, col.fired,
               NoEmbed)
  ELSE LET d == collection_delete(col.g, col.g.chroma_collection, document_ids, F)
       IN IF d.ok
          THEN Outcome(d.g, TRUE, <<>>, None, col.calls \o d.calls, {}, NoEmbed)
          ELSE Outcome(d.g, FALSE, <<>>, "collection.delete",
                       col.calls \o d.calls, d.fired, NoEmbed)

\* variant: the list is rejected only when every id is blank
delete_documents_all_blank(g, document_ids, collection_name, F) ==
  IF document_ids = <<>> THEN Outcome(g, FALSE, <<>>, None, <<>>, {}, NoEmbed)
  ELSE IF \A i \in 1..Len(document_ids) : IsBlank(document_ids[i])
  THEN Outcome(g, FALSE, <<>>, None, <<>>, {}, NoEmbed)
  ELSE ExceptReturn(delete_documents_try(g, document_ids, collection_name, F), FALSE)

\* variant: a call deletes only the first of the ids that the collection holds
delete_documents_first_held(g, document_ids, collection_name, F) ==
  LET col == get_chroma_collection(g, collection_name, F)
      held == IF col.ok THEN col.g.store[col.g.chroma_collection] ELSE {}
      found == { i \in 1..Len(document_ids) : \E d \in held : d.id = document_ids[i] }
      first == CHOOSE i \in found : \A j \in found : i <= j
  IN IF found = {} THEN Outcome(col.g, col.ok, <<>>, None, col.calls, col.fired, NoEmbed)
     ELSE ExceptReturn(delete_documents_try(g, << document_ids[first] >>,
                                            collection_name, F), FALSE)

delete_documents(g, document_ids, collection_name, F) ==
  IF document_ids = <<>> THEN Outcome(g, FALSE, <<>>, None, <<>>, {}, NoEmbed)
  ELSE IF \E i \in 1..Len(document_ids) : IsBlank(document_ids[i])
  THEN Outcome(g, FALSE, <<>>, None, <<>>, {}, NoEmbed)
  ELSE ExceptReturn(delete_documents_try(g, document_ids, collection_name, F), FALSE)

\* line 149: an entry without an id or without content is skipped
InvalidEntry(doc) == doc.id = <<>> \/ doc.content = <<>>

\* lines 148-165: the valid entries in order, each with the cached embedding of
\* its content if there is one; the lookups run one after the other
RECURSIVE BatchPrepare(_, _, _, _)
BatchPrepare(g, documents, F, t) ==
  IF documents = <<>>
  THEN [ g |-> g, items |-> <<>>, calls |-> <<>>, fired |-> {} ]
  ELSE
    LET doc == Head(documents) IN
    IF InvalidEntry(doc) THEN BatchPrepare(g, Tail(documents), F, t)
    ELSE
      LET c == get_cached_embedding(g, doc.content, F, t)
          rest == BatchPrepare(c.g, Tail(documents), F, t)
      IN [ g |-> rest.g,
           items |-> << [ doc |-> doc, cached |-> c.hit, vec |-> c.vec ] >>
                     \o rest.items,
           calls |-> c.calls \o rest.calls, fired |-> c.fired \cup rest.fired ]

\* line 169: the contents that have no cached embedding
RECURSIVE TextsToEmbed(_)
TextsToEmbed(items) ==
  IF items = <<>> THEN <<>>
  ELSE IF Head(items).cached THEN TextsToEmbed(Tail(items))
  ELSE << Head(items).doc.content >> \o TextsToEmbed(Tail(items))

\* encode_batch of embeddings.py: blank texts are filtered out (line 75), one
\* vector per text that is left
RECURSIVE encode_batch(_)
encode_batch(texts) ==
  IF texts = <<>> THEN <<>>
  ELSE IF IsBlank(Head(texts)) THEN encode_batch(Tail(texts))
  ELSE << ModelEncode(Head(texts)) >> \o encode_batch(Tail(texts))

\* lines 175-176: for text, embedding in zip(texts, new_embeddings)
RECURSIVE BatchCache(_, _, _, _, _)
BatchCache(g, texts, new_embeddings, F, t) ==
  IF texts = <<>> \/ new_embeddings = <<>>
  THEN [ g |-> g, ok |-> TRUE, calls |-> <<>>, fired |-> {} ]
  ELSE
    LET w == cache_embedding(g, Head(texts), Head(new_embeddings), F, t) IN
    IF ~w.ok THEN w
    ELSE LET rest == BatchCache(w.g, Tail(texts), Tail(new_embeddings), F, t)
         IN [ g |-> rest.g, ok |-> rest.ok, calls |-> w.calls \o rest.calls,
              fired |-> w.fired \cup rest.fired ]

\* lines 179-189: the final embeddings list; new_embeddings[text_index] raises
\* IndexError (ok = FALSE) when the encoder returned fewer vectors than texts
RECURSIVE BatchEmbeddings(_, _)
BatchEmbeddings(items, new_embeddings) ==
  IF items = <<>> THEN [ ok |-> TRUE, embeddings |-> <<>> ]
  ELSE IF Head(items).cached
  THEN LET r == BatchEmbeddings(Tail(items), new_embeddings)
       IN [ ok |-> r.ok, embeddings |-> << Head(items).vec >> \o r.embeddings ]
  ELSE IF new_embeddings = <<>> THEN [ ok |-> FALSE, embeddings |-> <<>> ]
  ELSE LET r == BatchEmbeddings(Tail(items), Tail(new_embeddings))
       IN [ ok |-> r.ok, embeddings |-> << Head(new_embeddings) >> \o r.embeddings ]

\* lines 192-197: ids, embeddings, documents and metadatas as one sequence
AddArgs(items, embeddings) ==
  [ i \in 1..Len(items) |->
      [ id |-> items[i].doc.id, embedding |-> embeddings[i],
        content |-> items[i].doc.content, metadata |-> items[i].doc.metadata ] ]

\* the Outcome of a batch call: count is what it returns, add_args what it
\* passed to collection.add
BatchOutcome(g, count, add_args, failed_at, calls, fired) ==
  [ Outcome(g, failed_at = None, <<>>, failed_at, calls, fired, NoEmbed)
      EXCEPT !.count = count, !.add_args = add_args ]

\* lines 138-200: the try block of add_documents_batch.  The object that
\* get_embedding_service returns is the SentenceTransformer model; its
\* encode_batch is a call into the library, which raises (fault encode_batch)
\* or answers as encode_batch of embeddings.py does.
add_documents_batch_try(g, documents, collection_name, F, dup, t) ==
  LET col == get_chroma_collection(g, collection_name, F) IN
  IF ~col.ok
  THEN BatchOutcome(col.g, 0, <<>>, "get_chroma_collection", col.calls, col.fired)
  ELSE
    LET p == BatchPrepare(col.g, documents, F, t)
        s == get_embedding_service(p.g, F)
        texts == TextsToEmbed(p.items)
    IN
    IF ~s.ok
    THEN BatchOutcome(s.g, 0, <<>>, "get_embedding_service",
                      col.calls \o p.calls \o s.calls, p.fired \cup s.fired)
    ELSE IF texts # <<>> /\ "encode_batch" \in F
    THEN BatchOutcome(s.g, 0, <<>>, "encode_batch",
                      col.calls \o p.calls \o s.calls \o <<"model.encode_batch">>,
                      p.fired \cup {"encode_batch"})
    ELSE
      LET new_embeddings == encode_batch(texts)
          w == BatchCache(s.g, texts, new_embeddings, F, t)
          e == BatchEmbeddings(p.items, new_embeddings)
          calls == col.calls \o p.calls \o s.calls
                   \o (IF texts # <<>> THEN <<"model.encode_batch">> ELSE <<>>)
                   \o w.calls
      IN
      IF ~w.ok
      THEN BatchOutcome(w.g, 0, <<>>, "cache_embedding", calls, p.fired \cup w.fired)
      ELSE IF ~e.ok
      THEN BatchOutcome(w.g, 0, <<>>, "IndexError", calls, p.fired \cup w.fired)
      ELSE
        LET add_args == AddArgs(p.items, e.embeddings)
            a == collection_add(w.g, w.g.chroma_collection, add_args, F, dup)
        IN IF a.ok
           THEN BatchOutcome(a.g, Len(documents), add_args, None,
                             calls \o a.calls, p.fired \cup w.fired)
           ELSE BatchOutcome(a.g, 0, add_args, "collection.add",
                             calls \o a.calls, p.fired \cup w.fired \cup a.fired)

\* `except Exception as e: ... return 0`
ExceptReturnZero(o) ==
  IF o.raised THEN [o EXCEPT !.raised = FALSE, !.ret = FALSE, !.count = 0] ELSE o

\* variant: the try block has no except clause
add_documents_batch_no_except(g, documents, collection_name, F, dup, t) ==
  IF documents = <<>> THEN BatchOutcome(g, 0, <<>>, None, <<>>, {})
  ELSE add_documents_batch_try(g, documents, collection_name, F, dup, t)

add_documents_batch(g, documents, collection_name, F, dup, t) ==
  IF documents = <<>> THEN BatchOutcome(g, 0, <<>>, None, <<>>, {})
  ELSE ExceptReturnZero(add_documents_batch_try(g, documents, collection_name,
                                                F, dup, t))

\* lines 339-347 of health_check: the heartbeat, and client.list_collections
\* when the heartbeat raises
liveness_probe_swallowed(F) ==
  IF "chroma_heartbeat" \notin F
  THEN [ ok |-> TRUE, calls |-> <<"client.heartbeat">>, fired |-> {} ]
  ELSE [ ok |-> TRUE, calls |-> <<"client.heartbeat", "client.list_collections">>,
         fired |-> {"chroma_heartbeat"} \cup (F \cap {"list_collections"}) ]

liveness_probe(F) ==
  IF "chroma_heartbeat" \notin F
  THEN [ ok |-> TRUE, calls |-> <<"client.heartbeat">>, fired |-> {} ]
  ELSE IF "list_collections" \in F
  THEN [ ok |-> FALSE, calls |-> <<"client.heartbeat", "client.list_collections">>,
         fired |-> {"chroma_heartbeat", "list_collections"} ]
  ELSE [ ok |-> TRUE, calls |-> <<"client.heartbeat", "client.list_collections">>,
         fired |-> {"chroma_heartbeat"} ]

\* lines 335-352: the try block of health_check
health_check_try(g, F) ==
  LET c == get_chroma_client(g, F) IN
  IF ~c.ok
  THEN Outcome(c.g, FALSE, <<>>, "get_chroma_client", c.calls, c.fired, NoEmbed)
  ELSE
  LET p == liveness_probe(F) IN
  IF ~p.ok
  THEN Outcome(c.g, FALSE, <<>>, "client.list_collections", c.calls \o p.calls,
               c.fired \cup p.fired, NoEmbed)
  ELSE
  LET col == get_chroma_collection(c.g, "knowledge_base", F)
      calls == c.calls \o p.calls \o col.calls \o <<"collection.count">>
      fired == c.fired \cup p.fired \cup col.fired
  IN
  IF ~col.ok
  THEN Outcome(col.g, FALSE, <<>>, "get_chroma_collection",
               c.calls \o p.calls \o col.calls, fired, NoEmbed)
  ELSE IF "collection_count" \in F
  THEN Outcome(col.g, FALSE, <<>>, "collection.count", calls,
               fired \cup {"collection_count"}, NoEmbed)
  ELSE Outcome(col.g, TRUE, <<>>, None, calls, fired, NoEmbed)

\* lines 353-355: `except Exception as e: ... return False`
health_check(g, F) == ExceptReturn(health_check_try(g, F), FALSE)

(* ------------------------------ sync job ------------------------------- *)
\* str(i) of a chunk index, as the f-string renders it
Digits == << "0", "1", "2", "3", "4", "5", "6", "7", "8", "9" >>
RECURSIVE Decimal(_)
Decimal(n) ==
  IF n < 10 THEN << Digits[n + 1] >>
  ELSE Decimal(n \div 10) \o << Digits[(n % 10) + 1] >>

\* variant: the chunk index follows the source id with no separator
doc_id_unseparated(prefix, source_id, i, total_chunks) ==
  IF total_chunks > 1 THEN prefix \o source_id \o Decimal(i) ELSE prefix \o source_id

\* data_processor.py line 113 (and 173): the id is a string, here the sequence
\* of its characters; it carries the chunk index only when the record has more
\* than one chunk
doc_id(prefix, source_id, i, total_chunks) ==
  IF total_chunks > 1 THEN prefix \o source_id \o << "_" >> \o Decimal(i)
  ELSE prefix \o source_id

\* data_processor.py lines 112-130: one dict per chunk
SourceDocuments(prefix, type, key, chunks) ==
  [ i \in 1..Len(chunks) |->
      [ id |-> doc_id(prefix, key, i - 1, Len(chunks)),
        content |-> chunks[i],
        metadata |-> { <<"title", "T">>, <<"type", type>> } ] ]

process_confluence_page(page_id, chunks) ==
  SourceDocuments(<< "c", "o", "n", "f", "_" >>, "confluence", page_id, chunks)

\* lines 172-193: the same for a Jira issue
process_jira_issue(issue_key, chunks) ==
  SourceDocuments(<< "j", "i", "r", "a", "_" >>, "jira", issue_key, chunks)

\* ticket_processor.py lines 147-151: the same for a Zoho Desk ticket
process_ticket(ticket_id, chunks) ==
  SourceDocuments(<< "z", "o", "h", "o", "_", "t", "i", "c", "k", "e", "t", "_" >>,
                  "zoho_ticket", ticket_id, chunks)

\* the resolved issues Jira answers with, and the tickets of Zoho Desk
JiraChunks == << <<"a">> >>
TicketChunks == << <<"a">> >>

\* line 148: existing_ids = [doc['id'] for doc in documents]
existing_ids(documents) == [ i \in 1..Len(documents) |-> documents[i].id ]

\* add_documents_batch as the sync job calls it, on a list of dicts: after the
\* collection is obtained, line 149 reads doc.id of the first entry, a dict has
\* no attribute id, and the except clause returns 0
add_documents_batch_of_dicts(g, documents, collection_name, F) ==
  IF documents = <<>> THEN BatchOutcome(g, 0, <<>>, None, <<>>, {})
  ELSE LET col == get_chroma_collection(g, collection_name, F) IN
       IF ~col.ok
       THEN ExceptReturnZero(BatchOutcome(col.g, 0, <<>>, "get_chroma_collection",
                                          col.calls, col.fired))
       ELSE ExceptReturnZero(BatchOutcome(col.g, 0, <<>>, "AttributeError",
                                          col.calls, col.fired))

\* a call the sync job made on the engine: its function, the ids it concerns,
\* and whether the call had run to its end when the next statement began
Event(fn, ids, completed) == [ fn |-> fn, ids |-> ids, completed |-> completed ]

\* sync_data.py lines 144-155 (and 219-230): one batch of documents.  The
\* result of each call is bound once, as the statement that made it does.
sync_batch(g, documents, incremental, F) ==
  IF documents = <<>>
  THEN [ g |-> g, count |-> 0, trace |-> <<>>, fired |-> {}, failed |-> FALSE ]
  ELSE
    LET ids == existing_ids(documents) IN
    CHOOSE b \in UNION {
        { [ g |-> a.g, count |-> a.count,
            trace |-> (IF incremental
                       THEN << Event("delete_documents", ids, TRUE) >>
                       ELSE <<>>)
                      \o << Event("add_documents_batch", ids, TRUE) >>,
            fired |-> d.fired \cup a.fired,
            failed |-> a.failed_at # None ] :
          a \in { add_documents_batch_of_dicts(d.g, documents,
                                               "knowledge_base", F) } } :
        d \in { IF incremental
                THEN delete_documents(g, ids, "knowledge_base", F)
                ELSE Outcome(g, FALSE, <<>>, None, <<>>, {}, NoEmbed) } } : TRUE

\* lines 103-162: the loop over the spaces; a space whose pages cannot be
\* fetched is logged and skipped
RECURSIVE sync_spaces(_, _, _, _, _)
sync_spaces(g, spaces, pages, incremental, F) ==
  IF spaces = <<>>
  THEN [ g |-> g, count |-> 0, trace |-> <<>>, fired |-> {}, failed |-> FALSE ]
  ELSE
    LET space_key == Head(spaces) IN
    IF "get_pages" \in F
    THEN LET rest == sync_spaces(g, Tail(spaces), pages, incremental, F)
         IN [rest EXCEPT !.fired = @ \cup {"get_pages"}, !.failed = TRUE]
    ELSE
      LET documents == process_confluence_page(PageId(space_key),
                                               pages[space_key].chunks)
      IN CHOOSE s \in UNION {
           { [ g |-> rest.g, count |-> b.count + rest.count,
               trace |-> b.trace \o rest.trace,
               fired |-> b.fired \cup rest.fired,
               failed |-> b.failed \/ rest.failed ] :
             rest \in { sync_spaces(b.g, Tail(spaces), pages, incremental, F) } } :
           b \in { sync_batch(g, documents, incremental, F) } } : TRUE

\* lines 82-169: every exception ends in `return 0` (167-169)
sync_confluence_data(g, pages, incremental, F) ==
  IF "get_spaces" \in F
  THEN [ g |-> g, count |-> 0, trace |-> <<>>, fired |-> {"get_spaces"},
         failed |-> TRUE ]
  ELSE sync_spaces(g, spaces_to_sync, pages, incremental, F)

\* lines 171-240: every exception ends in `return 0` (238-240)
sync_jira_data(g, incremental, F) ==
  IF "get_resolved_issues" \in F
  THEN [ g |-> g, count |-> 0, trace |-> <<>>, fired |-> {"get_resolved_issues"},
         failed |-> TRUE ]
  ELSE sync_batch(g, process_jira_issue(<< "A", "-", "1" >>, JiraChunks), incremental, F)

\* variant: success needs a document
success_needs_documents(total_count, errors) == total_count > 0

\* line 303
success(total_count, errors) == total_count > 0 \/ errors = <<>>

\* variant: the Jira sync is skipped after a failed Confluence sync
jira_enabled_unless_failed(sync_jira, c) == sync_jira /\ ~c.failed

\* line 288: `if self.sync_jira:`, whatever the Confluence sync did
jira_enabled(sync_jira, c) == sync_jira

\* lines 257-317.  sync_confluence_data and sync_jira_data let no exception
\* out, so the except clauses at 282-285 and 293-296 add nothing to errors; the
\* only error recorded is the failed health check, at 312-317.
run_sync(g, pages, incremental, sync_jira, F) ==
  CHOOSE r \in UNION {
    IF ~h.ret
    THEN { [ g |-> h.g, health |-> FALSE, trace |-> <<>>, fired |-> h.fired,
             result |-> [NoResult EXCEPT !.errors = << "Sync process failed" >>,
                                         !.success = FALSE],
             confluence_failed |-> FALSE, jira_failed |-> FALSE,
             jira_ran |-> FALSE, jira_returned |-> 0 ] }
    ELSE UNION {
      LET jira_ran == jira_enabled(sync_jira, c) IN
      { LET total_count == c.count + j.count
            errors == <<>>
        IN [ g |-> j.g, health |-> TRUE, trace |-> c.trace \o j.trace,
             fired |-> h.fired \cup c.fired \cup j.fired,
             result |-> [ confluence_count |-> c.count, jira_count |-> j.count,
                          total_count |-> total_count,
                          success |-> success(total_count, errors),
                          errors |-> errors ],
             confluence_failed |-> c.failed, jira_failed |-> j.failed,
             jira_ran |-> jira_ran, jira_returned |-> j.count ] :
        j \in { IF jira_ran THEN sync_jira_data(c.g, incremental, F)
                ELSE [ g |-> c.g, count |-> 0, trace |-> <<>>, fired |-> {},
                       failed |-> FALSE ] } } :
      c \in { sync_confluence_data(h.g, pages, incremental, F) } } :
    h \in { health_check(g, F) } } : TRUE

\* zoho_desk_sync.py lines 171-181: RAGClient's methods are coroutine
\* functions and are called without await, so each call only creates a
\* coroutine that never runs
sync_tickets_batch(documents, incremental) ==
  IF documents = <<>> THEN <<>>
  ELSE (IF incremental
        THEN << Event("delete_documents", existing_ids(documents), FALSE) >>
        ELSE <<>>)
       \o << Event("add_documents_batch", existing_ids(documents), FALSE) >>

(* ---------------------------- chat surface ----------------------------- *)
\* message_processing.py lines 187-198: a greeting occurs in the query
is_simple_greeting(query) ==
  ~IsBlank(query) /\ \E i \in 1..Len(query) : query[i] = "hi"

\* cache.py lines 212-236
get_cached_rag_context(g, c, query, F) ==
  IF IsBlank(query) THEN [ g |-> g, context |-> <<>>, fired |-> {} ]
  ELSE
    CHOOSE r \in {
      LET cache_key == generate_cache_key("rag", query) IN
      IF rc.val # None /\ "redis_get" \in F
      THEN [ g |-> rc.g, context |-> <<>>, fired |-> rc.fired \cup {"redis_get"} ]
      ELSE IF rc.val # None /\ CacheHas(c.rag_redis, cache_key)
      THEN [ g |-> rc.g, context |-> CacheEntry(c.rag_redis, cache_key).context,
             fired |-> rc.fired ]
      ELSE IF CacheHas(c.rag_memory, cache_key)
      THEN [ g |-> rc.g, context |-> CacheEntry(c.rag_memory, cache_key).context,
             fired |-> rc.fired ]
      ELSE [ g |-> rc.g, context |-> <<>>, fired |-> rc.fired ] :
      rc \in { get_redis_client(g, F) } } : TRUE

\* cache.py lines 239-263
cache_rag_context(g, c, query, context, F) ==
  IF query = <<>> \/ context = <<>> THEN [ g |-> g, c |-> c, fired |-> {} ]
  ELSE
    CHOOSE r \in {
      LET entry == [ key |-> generate_cache_key("rag", query), context |-> context ]
      IN
      IF rc.val # None /\ "redis_setex" \in F
      THEN [ g |-> rc.g, c |-> c, fired |-> rc.fired \cup {"redis_setex"} ]
      ELSE IF rc.val # None
      THEN [ g |-> rc.g,
             c |-> [c EXCEPT !.rag_redis = CachePut(@, entry),
                             !.rag_memory = CachePut(@, entry)],
             fired |-> rc.fired ]
      ELSE [ g |-> rc.g, c |-> [c EXCEPT !.rag_memory = CachePut(@, entry)],
             fired |-> rc.fired ] :
      rc \in { get_redis_client(g, F) } } : TRUE

\* cache.py lines 202-209: the hash stands for what it is computed from
generate_query_hash(messages, context) == << messages, context >>

\* cache.py lines 130-164
get_cached_llm_response(g, c, query_hash, F, t) ==
  CHOOSE r \in {
    LET cache_key == generate_cache_key("llm", query_hash)
        in_redis == rc.val # None /\ CacheHas(c.llm_redis, cache_key)
        \* the tiers as they are when the memory tier is read
        c1 == IF in_redis THEN [c EXCEPT !.llm_redis = CacheDel(@, cache_key)] ELSE c
    IN
    IF rc.val # None /\ "redis_get" \in F
    THEN [ g |-> rc.g, c |-> c, response |-> <<>>, fired |-> rc.fired \cup {"redis_get"} ]
    ELSE IF in_redis /\ "redis_parse" \in F
    THEN [ g |-> rc.g, c |-> c, response |-> <<>>, fired |-> rc.fired \cup {"redis_parse"} ]
    ELSE IF in_redis /\ Unexpired(CacheEntry(c.llm_redis, cache_key), t)
    THEN [ g |-> rc.g, c |-> c,
           response |-> CacheEntry(c.llm_redis, cache_key).response,
           fired |-> rc.fired ]
    ELSE IF in_redis /\ "redis_delete" \in F
    THEN [ g |-> rc.g, c |-> c, response |-> <<>>, fired |-> rc.fired \cup {"redis_delete"} ]
    ELSE IF CacheHas(c1.llm_memory, cache_key)
    THEN IF Unexpired(CacheEntry(c1.llm_memory, cache_key), t)
         THEN [ g |-> rc.g, c |-> c1,
                response |-> CacheEntry(c1.llm_memory, cache_key).response,
                fired |-> rc.fired ]
         ELSE [ g |-> rc.g, c |-> [c1 EXCEPT !.llm_memory = CacheDel(@, cache_key)],
                response |-> <<>>, fired |-> rc.fired ]
    ELSE [ g |-> rc.g, c |-> c1, response |-> <<>>, fired |-> rc.fired ] :
    rc \in { get_redis_client(g, F) } } : TRUE

\* cache.py lines 167-199
cache_llm_response(g, c, query_hash, response, F, t) ==
  IF response = <<>> THEN [ g |-> g, c |-> c, fired |-> {} ]
  ELSE
    CHOOSE r \in {
      LET entry == [ key |-> generate_cache_key("llm", query_hash),
                     response |-> response, expires_at |-> t + cache_ttl_responses ]
      IN
      IF rc.val # None /\ "redis_setex" \in F
      THEN [ g |-> rc.g, c |-> c, fired |-> rc.fired \cup {"redis_setex"} ]
      ELSE IF rc.val # None
      THEN [ g |-> rc.g,
             c |-> [c EXCEPT !.llm_redis = CachePut(@, entry),
                             !.llm_memory = CachePut(@, entry)],
             fired |-> rc.fired ]
      ELSE [ g |-> rc.g, c |-> [c EXCEPT !.llm_memory = CachePut(@, entry)],
             fired |-> rc.fired ] :
      rc \in { get_redis_client(g, F) } } : TRUE

\* llm_service.py lines 26, 30, 98, 102, 106, 110: the texts call_llm_async
\* answers with when it has no reply of the model
Fallback ==
  [ no_messages |-> << "I need a message to process. Please try again." >>,
    empty_messages |-> << "I received empty messages. Please try again." >>,
    unexpected_format |->
      << "I received an unexpected response format. Please try again." >>,
    timeout |->
      << "The request took too long to process. Please try a simpler question." >>,
    client_error |->
      << "I'm having trouble connecting to my knowledge base. Please try again later." >>,
    error |-> << "An unexpected error occurred. Please try again." >> ]

\* what the LLM endpoint does with a request: it replies with a well-formed
\* body (content, and whether the content is longer than max_message_length),
\* replies with a body of another shape, or the request fails
LlmReply(content, too_long) == [ kind |-> "reply", content |-> content, too_long |-> too_long ]
LlmFailure(kind) == [ kind |-> kind, content |-> <<>>, too_long |-> FALSE ]

\* llm_service.py lines 85-89: the content stripped, and cut when too long
reply_content(reply) ==
  IF reply.too_long THEN strip(reply.content) \o << "... [truncated]" >>
  ELSE strip(reply.content)

\* variant: the text sent for a body of another shape is cached like a reply
handle_llm_result_caching_fallback(g, c, query_hash, llm, F, t) ==
  CHOOSE r \in {
    [ g |-> w.g, c |-> w.c, fired |-> w.fired,
      response |-> IF llm.kind = "reply" THEN reply_content(llm)
                   ELSE Fallback.unexpected_format ] :
    w \in { cache_llm_response(g, c, query_hash,
                               IF llm.kind = "reply" THEN reply_content(llm)
                               ELSE Fallback.unexpected_format, F, t) } } : TRUE

\* llm_service.py lines 80-98: the body of the reply
handle_llm_result(g, c, query_hash, llm, F, t) ==
  IF llm.kind = "reply"
  THEN CHOOSE r \in {
         [ g |-> w.g, c |-> w.c, fired |-> w.fired, response |-> reply_content(llm) ] :
         w \in { cache_llm_response(g, c, query_hash, reply_content(llm), F, t) } } : TRUE
  ELSE [ g |-> g, c |-> c, fired |-> {}, response |-> Fallback.unexpected_format ]

\* llm_service.py lines 18-110.  messages are the contents of the messages in
\* their order; http tells whether the request was sent to the endpoint
call_llm_async(g, c, messages, context, llm, F, t) ==
  IF messages = <<>>
  THEN [ g |-> g, c |-> c, response |-> Fallback.no_messages, from_cache |-> FALSE,
         http |-> FALSE, fired |-> {} ]
  ELSE IF \A i \in 1..Len(messages) : IsBlank(messages[i])
  THEN [ g |-> g, c |-> c, response |-> Fallback.empty_messages, from_cache |-> FALSE,
         http |-> FALSE, fired |-> {} ]
  ELSE
    CHOOSE r \in UNION {
      IF cached.response # <<>>
      THEN { [ g |-> cached.g, c |-> cached.c, response |-> cached.response,
               from_cache |-> TRUE, http |-> FALSE, fired |-> cached.fired ] }
      ELSE IF llm.kind \in { "reply", "other_shape" }
      THEN { [ g |-> h.g, c |-> h.c, response |-> h.response, from_cache |-> FALSE,
               http |-> TRUE, fired |-> cached.fired \cup h.fired ] :
             h \in { handle_llm_result(cached.g, cached.c,
                                       generate_query_hash(messages, context),
                                       llm, F, t) } }
      ELSE { [ g |-> cached.g, c |-> cached.c,
               response |-> IF llm.kind = "timeout" THEN Fallback.timeout
                            ELSE IF llm.kind = "client_error" THEN Fallback.client_error
                            ELSE Fallback.error,
               from_cache |-> FALSE, http |-> TRUE, fired |-> cached.fired ] } :
      cached \in { get_cached_llm_response(g, c,
                                           generate_query_hash(messages, context),
                                           F, t) } } : TRUE

\* app.py lines 83-93: the context built from the search results
build_context(results) ==
  [ i \in 1..Len(results) |->
      << results[i].title, results[i].content, results[i].url >> ]

\* variant: the exception is logged and raised again
rag_except_reraises(k) == [k EXCEPT !.raised = TRUE, !.propagates = TRUE]

\* app.py lines 101-102: the exception is logged and the request goes on
rag_except(k) == [k EXCEPT !.raised = TRUE]

\* app.py lines 72-102: the context lookup; no exception leaves it
rag_lookup(g, c, query, F, rows, distances, reported, t) ==
  CHOOSE r \in UNION {
    IF cached.context # <<>>
    THEN { [ g |-> cached.g, c |-> c, context |-> cached.context, cache_hit |-> TRUE,
             searched |-> FALSE, found |-> 0, raised |-> FALSE,
             propagates |-> FALSE, fired |-> cached.fired ] }
    ELSE IF "search_rag" \in F
    THEN { rag_except([ g |-> cached.g, c |-> c, context |-> <<>>,
                        cache_hit |-> FALSE, searched |-> TRUE, found |-> 0,
                        raised |-> FALSE, propagates |-> FALSE,
                        fired |-> cached.fired \cup {"search_rag"} ]) }
    ELSE UNION {
      IF s.results = <<>>
      THEN { [ g |-> s.g, c |-> c, context |-> <<>>, cache_hit |-> FALSE,
               searched |-> TRUE, found |-> 0, raised |-> FALSE,
               propagates |-> FALSE, fired |-> cached.fired \cup s.fired ] }
      ELSE { [ g |-> w.g, c |-> w.c, context |-> build_context(s.results),
               cache_hit |-> FALSE, searched |-> TRUE, found |-> Len(s.results),
               raised |-> FALSE, propagates |-> FALSE,
               fired |-> cached.fired \cup s.fired \cup w.fired ] :
             w \in { cache_rag_context(s.g, c, query, build_context(s.results), F) } } :
      s \in { search(cached.g, query, 3, {}, "knowledge_base", F,
                     rows, distances, reported, t) } } :
    cached \in { get_cached_rag_context(g, c, query, F) } } : TRUE

\* the text posted when the handler itself fails (app.py line 140)
HandlerErrorText == << "I encountered an error processing your request. Please try again." >>
SystemPrompt == << "You are a helpful technical assistant in a Slack workspace." >>

\* app.py lines 52-143: one request.  llm_calls lists the context of each call
\* of call_llm_async, posted the texts sent to the channel
process_llm_request_async(g, c, query, rag_enabled, F, rows, distances, reported, llm, t) ==
  CHOOSE out \in UNION {
    IF k.propagates
    THEN { [ g |-> k.g, c |-> k.c,
             request |-> [ handled |-> TRUE, query |-> query, lookup |-> TRUE,
                           cache_hit |-> k.cache_hit, searched |-> k.searched,
                           found |-> k.found, rag_raised |-> k.raised,
                           llm_calls |-> <<>>, response |-> <<>>,
                           posted |-> << HandlerErrorText >>,
                           from_cache |-> FALSE, http |-> FALSE, fired |-> k.fired ] ] }
    ELSE
      { [ g |-> a.g, c |-> a.c,
          request |-> [ handled |-> TRUE, query |-> query,
                        lookup |-> rag_enabled /\ ~is_simple_greeting(query),
                        cache_hit |-> k.cache_hit, searched |-> k.searched,
                        found |-> k.found, rag_raised |-> k.raised,
                        llm_calls |-> << k.context >>, response |-> a.response,
                        \* a failed post is answered with the error text,
                        \* posted the same way (lines 117-143)
                        posted |-> IF "chat_postMessage" \in F THEN <<>>
                                   ELSE << a.response >>,
                        from_cache |-> a.from_cache, http |-> a.http,
                        fired |-> k.fired \cup a.fired
                                  \cup (F \cap {"chat_postMessage"}) ] ] :
        a \in { call_llm_async(k.g, k.c, << SystemPrompt, query >>, k.context,
                               llm, F, t) } } :
    k \in { IF rag_enabled /\ ~is_simple_greeting(query)
            THEN rag_lookup(g, c, query, F, rows, distances, reported, t)
            ELSE [ g |-> g, c |-> c, context |-> <<>>, cache_hit |-> FALSE,
                   searched |-> FALSE, found |-> 0, raised |-> FALSE,
                   propagates |-> FALSE, fired |-> {} ] } } : TRUE

(* ------------------------------ actions -------------------------------- *)
Apply(g) ==
  /\ chroma_client' = g.chroma_client
  /\ chroma_collection' = g.chroma_collection
  /\ store' = g.store
  /\ embedding_model' = g.embedding_model
  /\ redis_client' = g.redis_client
  /\ redis' = g.redis
  /\ memory_cache' = g.memory_cache

Record(op, args, answer, r) ==
  [ op |-> op, args |-> args, time |-> now, before |-> Globals, answer |-> answer,
    ret |-> r.ret, results |-> r.results, raised |-> r.raised,
    failed_at |-> r.failed_at, calls |-> r.calls, fired |-> r.fired,
    embedded |-> r.embedded, hit |-> r.hit, tier |-> r.tier,
    expires_at |-> r.expires_at, vec |-> r.vec, count |-> r.count,
    add_args |-> r.add_args ]

\* the collection an operation called with this name reaches
HandleFor(collection_name) ==
  IF chroma_collection # None THEN chroma_collection ELSE collection_name

\* An injected fault that no call of the operation meets changes nothing, so
\* an operation is run only with fault sets that take effect in full
\* (r.fired = F).
\* add_document on arguments drawn from the given sets; a call that returns at
\* its argument checks meets no fault
AddDocumentIn(Ids, Cs, Ms, Ns, Fs, Dups) ==
  \E document_id \in Ids, content \in Cs, metadata \in Ms, collection_name \in Ns :
    \E F \in IF IsBlank(document_id) \/ IsBlank(content) \/ metadata = {}
             THEN {{}} ELSE Fs :
      \E dup \in IF \E d \in store[HandleFor(collection_name)] : d.id = document_id
                 THEN Dups ELSE {"overwrite"} :
        \E r \in { add_document(Globals, document_id, content, metadata,
                                collection_name, F, dup, now) } :
           /\ r.fired = F
           /\ Apply(r.g)
           /\ last' = Record("add_document",
                             [NoArgs EXCEPT !.document_id = document_id,
                                            !.content = content,
                                            !.metadata = metadata,
                                            !.collection_name = collection_name],
                             NoAnswer, r)
           /\ UNCHANGED << redis_enabled, now, threads, chunker, sync, pipeline, chat, workers >>

\* the answers collection.query may give: the n nearest of the documents the
\* where clause selects, nearest first, with or without their distances
NonDecreasing(ds) == \A i \in 1..(Len(ds) - 1) : ds[i] <= ds[i + 1]
Injective(f) == \A i, j \in DOMAIN f : i # j => f[i] # f[j]
Min(a, b) == IF a <= b THEN a ELSE b

StoreAnswers(held, where, n_results, Ds) ==
  LET matching == WhereMatches(held, where)
      n == Min(n_results, Cardinality(matching))
      rankings == { f \in [1..n -> matching] : Injective(f) }
  IN { [ rows |-> rows, distances |-> ds, reported |-> TRUE ] :
         rows \in rankings, ds \in { f \in [1..n -> Ds] : NonDecreasing(f) } }
     \cup { [ rows |-> rows, distances |-> [i \in 1..n |-> 0], reported |-> FALSE ] :
            rows \in rankings }

\* search on arguments drawn from the given sets; the store answers a query
\* that reaches it (probe: the call up to the store's answer)
SearchIn(Qs, Ks, Fls, Ns, Fs, Ds) ==
  \E query \in Qs, top_k \in Ks, filters \in Fls, collection_name \in Ns :
    \E F \in IF IsBlank(query) \/ top_k <= 0 THEN {{}} ELSE Fs :
      \E probe \in { search(Globals, query, top_k, filters, collection_name, F,
                            <<>>, <<>>, TRUE, now) } :
        \E answer \in IF probe.fired # F THEN {}
                      ELSE IF probe.ret
                      THEN StoreAnswers(store[HandleFor(collection_name)],
                                        SearchWhere(filters), top_k, Ds)
                      ELSE { NoAnswer } :
          \E r \in { IF probe.ret
                      THEN search(Globals, query, top_k, filters, collection_name, F,
                                  answer.rows, answer.distances, answer.reported, now)
                      ELSE probe } :
            /\ Apply(r.g)
            /\ last' = Record("search",
                              [NoArgs EXCEPT !.query = query, !.top_k = top_k,
                                             !.filters = filters,
                                             !.collection_name = collection_name],
                              answer, r)
            /\ UNCHANGED << redis_enabled, now, threads, chunker, sync, pipeline, chat, workers >>

DeleteDocumentsIn(Ls, Ns, Fs) ==
  \E document_ids \in Ls, collection_name \in Ns :
    \E F \in IF document_ids = <<>>
                \/ \E i \in 1..Len(document_ids) : IsBlank(document_ids[i])
             THEN {{}} ELSE Fs :
      \E r \in { delete_documents(Globals, document_ids, collection_name, F) } :
         /\ r.fired = F
         /\ Apply(r.g)
         /\ last' = Record("delete_documents",
                           [NoArgs EXCEPT !.document_ids = document_ids,
                                          !.collection_name = collection_name],
                           NoAnswer, r)
         /\ UNCHANGED << redis_enabled, now, threads, chunker, sync, pipeline, chat, workers >>

\* add_documents_batch on a batch drawn from the given set
AddDocumentsBatchIn(Bs, Ns, Fs, Dups) ==
  \E documents \in Bs, collection_name \in Ns :
    \E F \in IF documents = <<>> THEN {{}} ELSE Fs :
      \E dup \in IF \E d \in store[HandleFor(collection_name)] :
                      \E i \in 1..Len(documents) : documents[i].id = d.id
                 THEN Dups ELSE {"overwrite"} :
        \E r \in { add_documents_batch(Globals, documents, collection_name, F,
                                       dup, now) } :
           /\ r.fired = F
           /\ Apply(r.g)
           /\ last' = Record("add_documents_batch",
                             [NoArgs EXCEPT !.documents = documents,
                                            !.collection_name = collection_name],
                             NoAnswer, r)
           /\ UNCHANGED << redis_enabled, now, threads, chunker, sync, pipeline, chat, workers >>

\* health_check under a fault set drawn from the given set
HealthCheckIn(Fs) ==
  \E F \in Fs :
    \E r \in { health_check(Globals, F) } :
       /\ r.fired = F
       /\ Apply(r.g)
       /\ last' = Record("health_check", NoArgs, NoAnswer, r)
       /\ UNCHANGED << redis_enabled, now, threads, chunker, sync, pipeline, chat, workers >>

\* the clock advances between operations
Tick ==
  /\ now + TickSeconds <= MaxTicks * TickSeconds
  /\ now' = now + TickSeconds
  /\ UNCHANGED << chroma_client, chroma_collection, store, embedding_model,
                  redis_enabled, redis_client, redis, memory_cache, last, threads, chunker, sync, pipeline, chat, workers >>

\* Redis drops a key once its SETEX time-to-live has passed
RedisExpire ==
  /\ \E e \in redis : e.expires_at <= now
  /\ redis' = { e \in redis : e.expires_at > now }
  /\ UNCHANGED << chroma_client, chroma_collection, store, embedding_model,
                  redis_enabled, redis_client, memory_cache, now, last, threads, chunker, sync, pipeline, chat, workers >>

(* ---------------- the engine, one call at a time (Spec) ---------------- *)
\* A caller invokes an operation, takes its result (Return), and invokes the
\* next; the environment may fail any call.  The clock stands still.
Idle == last.op = "none"

AddDocument ==
  Idle /\ AddDocumentIn(DocumentIds, Contents, Metadatas, DefaultNames,
                        FaultSets, DupPolicies)

Search ==
  Idle /\ SearchIn(Queries, 0..MaxTopK, Filters, DefaultNames, FaultSets,
                   Distances)

DeleteDocuments == Idle /\ DeleteDocumentsIn(IdLists, DefaultNames, FaultSets)

Return ==
  /\ ~Idle
  /\ last' = NoOp
  /\ UNCHANGED << chroma_client, chroma_collection, store, embedding_model,
                  redis_enabled, redis_client, redis, memory_cache, now, threads, chunker, sync, pipeline, chat, workers >>

Next == AddDocument \/ Search \/ DeleteDocuments \/ Return

Spec == Init /\ [][Next]_vars

(* ======================= claims checked under Spec ===================== *)
\* the collection the recorded operation reached, or would have reached
HandleOf(rec) ==
  IF rec.before.chroma_collection # None THEN rec.before.chroma_collection
  ELSE rec.args.collection_name

AllDocs(g) == UNION { g.store[n] : n \in CollectionNames }

IdSet(ids) == { ids[i] : i \in 1..Len(ids) }

\* empty or whitespace-only
Blank(text) == \A i \in 1..Len(text) : text[i] = " "

BlankAddArgs(rec) ==
  Blank(rec.args.document_id) \/ Blank(rec.args.content) \/ rec.args.metadata = {}

\* C1: add_document with a blank document id, blank content or empty metadata
\* returns False and has no effect: no call is made (no collection acquired,
\* no embedding computed or cached, no collection.add) and every global, the
\* store and both cache tiers are as they were.
C1_BlankAddRejected ==
  (last.op = "add_document" /\ BlankAddArgs(last))
    => /\ last.ret = FALSE
       /\ ~last.raised
       /\ last.calls = <<>>
       /\ Globals = last.before

C1_Witness ==
  /\ last.op = "add_document"
  /\ last.args.document_id = <<"d1">>
  /\ last.args.content = <<" ">>
  /\ last.args.metadata # {}
  /\ last.ret = FALSE
  /\ AllDocs(Globals) # {}

\* faults inside the cache, which the cache functions catch themselves
CacheFaults == { "redis_ping", "redis_get", "redis_parse", "redis_setex",
                 "redis_delete" }

\* add_document returned True and collection.add was its last call and completed
AddCompleted(rec) ==
  /\ rec.failed_at = None
  /\ rec.calls # <<>>
  /\ rec.calls[Len(rec.calls)] = "collection.add"
  /\ "store_op" \notin rec.fired
  /\ \E d \in Globals.store[HandleOf(rec)] : d.id = rec.args.document_id

\* C2 as stated: add_document never raises; a failure at any step, the cache
\* lookup and the cache write included, makes it return False; it returns True
\* only if collection.add completed.
C2_Original ==
  (last.op = "add_document" /\ ~BlankAddArgs(last))
    => /\ ~last.raised
       /\ (last.fired # {} => last.ret = FALSE)
       /\ (last.ret = TRUE => AddCompleted(last))

\* C2 as amended: add_document never raises; a failure at a step that raises
\* into its try block (collection acquisition, model load or encode, a cache
\* write that raises, collection.add) makes it return False; a failure of the
\* shared tier during the cache lookup or the cache write is swallowed by the
\* cache and does not by itself make it return False; it returns True only if
\* collection.add completed.
C2_AddNeverRaises ==
  (last.op = "add_document" /\ ~BlankAddArgs(last))
    => /\ ~last.raised
       /\ (last.failed_at # None => last.ret = FALSE)
       /\ (last.fired \ CacheFaults # {} => last.ret = FALSE)
       /\ (last.fired \subseteq CacheFaults /\ last.failed_at = None
             => last.ret = TRUE)
       /\ (last.ret = TRUE => AddCompleted(last))

\* the model raised in encode: False, nothing raised, nothing stored
C2_Witness ==
  /\ last.op = "add_document"
  /\ ~BlankAddArgs(last)
  /\ last.failed_at = "model.encode"
  /\ last.ret = FALSE
  /\ ~last.raised
  /\ Globals.store = last.before.store

\* C4: every result search returns has a score in [0,1], and it is the score
\* of a row of the store's answer: 1 - distance when the store reports
\* distances, 0.0 otherwise.
C4_ScoresValid ==
  last.op = "search"
    => \A i \in 1..Len(last.results) :
         /\ 0 <= last.results[i].score
         /\ last.results[i].score <= One
         /\ \E j \in 1..Len(last.answer.rows) :
              /\ last.results[i].content = last.answer.rows[j].content
              /\ last.results[i].metadata = last.answer.rows[j].metadata
              /\ last.results[i].score =
                   IF last.answer.reported THEN One - last.answer.distances[j] ELSE 0

\* two rows answered, the nearer one out of range and dropped, the other returned
C4_Witness ==
  /\ last.op = "search"
  /\ Len(last.answer.rows) = 2
  /\ last.answer.reported
  /\ last.answer.distances = << -1, One >>
  /\ Len(last.results) = 1
  /\ last.results[1].score = 0

\* C5: search with a blank query or with top_k <= 0 returns the empty list
\* before anything else happens: no call is made and every global is as it was.
C5_InvalidSearchRejected ==
  (last.op = "search" /\ (Blank(last.args.query) \/ last.args.top_k <= 0))
    => /\ last.results = <<>>
       /\ ~last.raised
       /\ last.calls = <<>>
       /\ Globals = last.before

C5_Witness ==
  /\ last.op = "search"
  /\ last.args.query = <<"a">>
  /\ last.args.top_k = 0
  /\ last.results = <<>>
  /\ last.calls = <<>>
  /\ AllDocs(Globals) # {}

\* C6 as stated: search never raises; any failure, reading or writing the
\* cache included, makes it return the empty list.
C6_Original ==
  last.op = "search"
    => /\ ~last.raised
       /\ (last.fired # {} => last.results = <<>>)

\* C6 as amended: search never raises; a failure while acquiring the
\* collection, loading the model, encoding the query or querying the store
\* makes it return the empty list; a failure of the shared tier while reading
\* or writing the cache is swallowed by the cache and the search goes on to the
\* store.
C6_SearchNeverRaises ==
  last.op = "search"
    => /\ ~last.raised
       /\ (last.failed_at # None => last.results = <<>>)
       /\ (last.fired \ CacheFaults # {} => last.results = <<>>)
       /\ (last.fired # {} /\ last.fired \subseteq CacheFaults
             => /\ last.failed_at = None
                /\ "collection.query" \in IdSet(last.calls)
                /\ Len(last.results) <= Len(last.answer.rows))

\* collection.query raised on a store that holds a document: the empty list
C6_Witness ==
  /\ last.op = "search"
  /\ last.failed_at = "collection.query"
  /\ last.results = <<>>
  /\ ~last.raised
  /\ AllDocs(Globals) # {}

InvalidIdList(ids) == ids = <<>> \/ \E i \in 1..Len(ids) : Blank(ids[i])

\* C7: delete_documents with an empty list, or a list holding a blank id,
\* returns False and deletes nothing, the non-blank ids of the list included.
C7_InvalidDeleteRejected ==
  (last.op = "delete_documents" /\ InvalidIdList(last.args.document_ids))
    => /\ last.ret = FALSE
       /\ ~last.raised
       /\ Globals.store = last.before.store
       /\ last.calls = <<>>

C7_Witness ==
  /\ last.op = "delete_documents"
  /\ last.args.document_ids = << <<"d1">>, <<" ">> >>
  /\ last.ret = FALSE
  /\ \E d \in AllDocs(Globals) : d.id = <<"d1">>

\* C8: delete_documents with non-blank ids, when no call into the store fails,
\* returns True whether or not the ids are held, removes exactly the listed ids
\* that were held and leaves every other document as it was.
C8_DeleteRemovesListed ==
  (/\ last.op = "delete_documents"
   /\ ~InvalidIdList(last.args.document_ids)
   /\ last.fired = {})
    => /\ last.ret = TRUE
       /\ Globals.store[HandleOf(last)] =
            { d \in last.before.store[HandleOf(last)] :
                d.id \notin IdSet(last.args.document_ids) }
       /\ \A n \in CollectionNames \ {HandleOf(last)} :
            Globals.store[n] = last.before.store[n]

\* ["d1"] deleted from a store holding only "d2": True, and "d2" is still held
C8_Witness ==
  /\ last.op = "delete_documents"
  /\ last.args.document_ids = << <<"d1">> >>
  /\ last.ret = TRUE
  /\ { d.id : d \in last.before.store[HandleOf(last)] } = { <<"d2">> }
  /\ Globals.store = last.before.store


\* C18: a failed connection attempt caches no handle: when constructing the
\* client, its first heartbeat or get_or_create_collection raises, neither
\* global keeps a handle, and an operation that begins without a collection
\* handle starts by constructing the client and testing the connection.
C18_FailedConnectCachesNothing ==
  /\ last.failed_at = "get_chroma_collection"
       => chroma_client = None /\ chroma_collection = None
  /\ (last.before.chroma_collection = None /\ last.calls # <<>>)
       => /\ last.calls[1] = "chromadb.HttpClient"
          /\ Len(last.calls) >= 2 => last.calls[2] = "client.heartbeat"

\* the rows of an answer whose score passes RAGSearchResult's validation
ValidRows(answer) ==
  { i \in 1..Len(answer.rows) :
      LET score == IF answer.reported THEN One - answer.distances[i] ELSE 0
      IN 0 <= score /\ score <= One }

\* C31: a search the store answered returns one result for every row of the
\* answer that passes validation, in the order of the answer; a row that
\* fails validation is left out and the rows after it are still returned.
C31_InvalidRowSkipped ==
  (last.op = "search" /\ last.ret)
    => /\ Len(last.results) = Cardinality(ValidRows(last.answer))
       /\ \E f \in [1..Len(last.results) -> ValidRows(last.answer)] :
            /\ \A i, j \in 1..Len(last.results) : i < j => f[i] < f[j]
            /\ \A i \in 1..Len(last.results) :
                 /\ last.results[i].content = last.answer.rows[f[i]].content
                 /\ last.results[i].metadata = last.answer.rows[f[i]].metadata

\* the first row of two fails validation and the second row is returned
C31_Witness ==
  /\ last.op = "search"
  /\ last.ret
  /\ Len(last.answer.rows) = 2
  /\ ValidRows(last.answer) = {2}
  /\ Len(last.results) = 1
  /\ last.results[1].content = last.answer.rows[2].content

(* ============ add then search on one document (SpecRoundTrip) ========= *)
\* Operations follow one another without a pause, so that a step shows the
\* record of the previous operation (last) and of the next (last').
\* the faults of a search that matter to what it returns
RtFaultSets ==
  { F \in FaultSets : F \subseteq { "redis_get", "model_encode", "store_op" } }

RtAddDocument ==
  AddDocumentIn({ <<"d1">> }, { <<"a">>, <<" ", "a">> }, Metadatas \ { {} },
                DefaultNames, RtFaultSets, DupPolicies)

RtSearch ==
  SearchIn(Queries \cup { <<" ", "a">> }, 1..MaxTopK, { {} }, DefaultNames,
           RtFaultSets, Distances)

RtDeleteDocuments ==
  DeleteDocumentsIn({ << <<"d1">> >> }, DefaultNames, { {} })

NextRoundTrip == RtAddDocument \/ RtSearch \/ RtDeleteDocuments

SpecRoundTrip == Init /\ [][NextRoundTrip]_vars

\* the document the recorded add_document call was given
AddedDoc(rec) ==
  [ id |-> rec.args.document_id, embedding |-> ModelEncode(rec.args.content),
    content |-> rec.args.content, metadata |-> rec.args.metadata ]

\* this step is a search that follows an add_document which returned True and
\* left the store holding the added document and no other
SearchAfterAdd ==
  /\ last.op = "add_document"
  /\ last.ret = TRUE
  /\ store[HandleOf(last)] = { AddedDoc(last) }
  /\ last'.op = "search"
  /\ ~Blank(last'.args.query)
  /\ last'.args.top_k >= 1

\* the text has a character that is neither whitespace nor markup
Visible(text) == \E i \in 1..Len(text) : text[i] \notin { " ", "<br>" }

FoundAdded(rec, content) ==
  \E i \in 1..Len(rec.results) :
    /\ rec.results[i].content = content
    /\ 0 <= rec.results[i].score
    /\ rec.results[i].score <= One

\* C3 as stated: after add_document returned True on a store holding no other
\* document, a search with a non-blank query and top_k >= 1, in which nothing
\* fails, returns a result with the added content and a score in [0,1].
C3_Original ==
  [][ (SearchAfterAdd /\ last'.fired = {}) => FoundAdded(last', last.args.content) ]_vars

\* C3 as amended: such a search returns the added content with a score in
\* [0,1] exactly when the query is not empty after cleaning and the store
\* reports no distance or a distance in [0,1]; otherwise, and whenever a step
\* of the search raises, it returns the empty list.
C3_RoundTrip ==
  [][ SearchAfterAdd =>
        IF /\ last'.failed_at = None
           /\ Visible(last'.args.query)
           /\ \/ ~last'.answer.reported
              \/ (0 <= last'.answer.distances[1] /\ last'.answer.distances[1] <= One)
        THEN /\ Len(last'.results) = 1
             /\ FoundAdded(last', last.args.content)
        ELSE last'.results = <<>> ]_vars

C3_Witness ==
  /\ last.op = "search"
  /\ last.args.query = <<" ", "a">>
  /\ last.before.store[HandleOf(last)] =
       { [ id |-> <<"d1">>, embedding |-> ModelEncode(<<"a">>), content |-> <<"a">>,
           metadata |-> {<<"title", "T">>, <<"type", "page">>} ] }
  /\ Len(last.results) = 1
  /\ last.results[1].content = <<"a">>
  /\ last.results[1].score = One

(* ================ the embedding cache over time (SpecCache) ============ *)
\* faults of the shared tier
CacheFaultSets ==
  { F \in FaultSets : F \subseteq { "redis_ping", "redis_get", "redis_parse",
                                    "redis_setex", "redis_delete" } }

CacheAddDocument ==
  AddDocumentIn({ <<"d1">> }, { <<" ", "a">> }, Metadatas \ { {} },
                DefaultNames, CacheFaultSets, { "overwrite" })

CacheSearch ==
  SearchIn({ <<"a">>, <<" ", "a">> }, { 1 }, { {} }, DefaultNames,
           CacheFaultSets, { 0 })

NextCache == CacheAddDocument \/ CacheSearch \/ Tick \/ RedisExpire

SpecCache == Init /\ [][NextCache]_vars

EmbeddingOps == { "add_document", "search" }

\* the entries a tier of the cache held for a text
EntriesFor(cache, text) == { e \in cache : e.text = text }

\* C9: the embedding cache never serves an expired entry.  A vector that
\* get_cached_embedding returned at time t was held, in the tier it was read
\* from, by an entry for that text with expires_at > t; and when every entry
\* held for the text has expires_at <= t the lookup is a miss and the calling
\* add_document or search invokes the model.
C9_NoExpiredEntryServed ==
  (last.op \in EmbeddingOps /\ last.embedded # <<>>)
    => /\ last.hit =>
            /\ last.tier \in { "redis", "memory" }
            /\ \E e \in EntriesFor(IF last.tier = "redis" THEN last.before.redis
                                   ELSE last.before.memory_cache, last.embedded) :
                 /\ e.embedding = last.vec
                 /\ e.expires_at = last.expires_at
                 /\ e.expires_at > last.time
            /\ "model.encode" \notin IdSet(last.calls)
       /\ (\A e \in EntriesFor(last.before.redis \cup last.before.memory_cache,
                               last.embedded) : e.expires_at <= last.time)
            => /\ ~last.hit
               /\ "model.encode" \in IdSet(last.calls)

\* an entry that expired at this very instant is held, and the model is invoked
C9_Witness ==
  /\ last.op = "search"
  /\ \E e \in EntriesFor(last.before.memory_cache, last.embedded) :
       e.expires_at = last.time
  /\ ~last.hit
  /\ "model.encode" \in IdSet(last.calls)
  /\ last.results # <<>>

\* the text an engine operation was called on
TextOf(rec) == IF rec.op = "add_document" THEN rec.args.content ELSE rec.args.query

\* This step is an engine operation that reaches its embedding step, follows
\* one that missed the cache, invoked the model and cached the vector, within
\* the time-to-live, and no call failed in either (the cache is working).
SecondWithinTtl ==
  /\ last.op \in EmbeddingOps
  /\ last.embedded # <<>>
  /\ ~last.hit
  /\ last.fired = {}
  /\ last.failed_at = None
  /\ "model.encode" \in IdSet(last.calls)
  /\ last' # last
  /\ last'.op \in EmbeddingOps
  /\ last'.embedded # <<>>
  /\ last'.fired = {}
  /\ last'.time < last.time + cache_ttl_embeddings

SecondIsHit == last'.hit /\ "model.encode" \notin IdSet(last'.calls)

\* C10 as stated: of two successive engine operations called on identical text
\* within the TTL, the second is a cache hit and does not invoke the model.
C10_Original ==
  [][ (SecondWithinTtl /\ TextOf(last) = TextOf(last')) => SecondIsHit ]_vars

\* C10 as amended: of two successive engine operations that embed identical
\* text (the content for add_document, the cleaned query for search) within
\* the TTL, the second is a cache hit and does not invoke the model.
C10_SecondCallHits ==
  [][ (SecondWithinTtl /\ last.embedded = last'.embedded) => SecondIsHit ]_vars

\* a search computed and cached the embedding of "a"; half a TTL later a
\* search for " a", cleaned to "a", was served from the cache
C10_Witness ==
  /\ last.op = "search"
  /\ last.args.query = <<" ", "a">>
  /\ last.embedded = <<"a">>
  /\ last.hit
  /\ last.time > 0
  /\ last.time < last.expires_at
  /\ "model.encode" \notin IdSet(last.calls)
  /\ last.vec = ModelEncode(<<"a">>)

(* ================ the cache called directly (SpecCacheApi) ============= *)
\* texts and vectors a caller hands to the cache; args.content holds the text
CacheTexts == { <<>>, <<" ">>, <<"a">>, <<"b">> }
Vectors == { <<>>, <<1, 0, 0>>, <<0, 1, 0>> }

\* a call of get_cached_embedding: ret tells whether a vector was returned
GetCachedEmbedding ==
  \E text \in CacheTexts, F \in CacheFaultSets :
    \E c \in { get_cached_embedding(Globals, text, F, now) } :
      /\ c.fired = F
      /\ Apply(c.g)
      /\ last' = Record("get_cached_embedding", [NoArgs EXCEPT !.content = text],
                        NoAnswer,
                        Outcome(c.g, c.hit, <<>>, None, c.calls, c.fired,
                                EmbedInfo(text, c)))
      /\ UNCHANGED << redis_enabled, now, threads, chunker, sync, pipeline, chat, workers >>

\* a call of cache_embedding: the ValueError of the entry's validator leaves it
CacheEmbedding ==
  \E text \in CacheTexts, embedding \in Vectors, F \in CacheFaultSets :
    \E w \in { cache_embedding(Globals, text, embedding, F, now) } :
      /\ w.fired = F
      /\ Apply(w.g)
      /\ last' = Record("cache_embedding",
                        [NoArgs EXCEPT !.content = text, !.embedding = embedding],
                        NoAnswer,
                        Outcome(w.g, w.ok, <<>>,
                                IF w.ok THEN None ELSE "EmbeddingCacheEntry",
                                w.calls, w.fired, NoEmbed))
      /\ UNCHANGED << redis_enabled, now, threads, chunker, sync, pipeline, chat, workers >>

NextCacheApi == GetCachedEmbedding \/ CacheEmbedding \/ Tick \/ RedisExpire

SpecCacheApi == Init /\ [][NextCacheApi]_vars

\* C11: cache_embedding with a blank text or an empty vector is a no-op: the
\* call returns without raising and leaves both cache tiers as they were.
C11_PutNoOp ==
  [][ (/\ last' # last
       /\ last'.op = "cache_embedding"
       /\ (Blank(last'.args.content) \/ last'.args.embedding = <<>>))
        => /\ ~last'.raised
           /\ redis' = redis
           /\ memory_cache' = memory_cache ]_vars

\* C12: cache_embedding with a non-blank text and a non-empty vector always
\* leaves the entry in the in-process tier, also when the write to the shared
\* tier fails.
C12_PutWritesMemory ==
  (/\ last.op = "cache_embedding"
   /\ ~Blank(last.args.content)
   /\ last.args.embedding # <<>>)
    => \E e \in EntriesFor(memory_cache, last.args.content) :
         /\ e.embedding = last.args.embedding
         /\ e.expires_at = last.time + cache_ttl_embeddings

\* C13: no failure of the cache reaches the caller: get_cached_embedding and
\* cache_embedding return normally for every input, whatever the shared tier
\* does.
C13_CacheNeverRaises ==
  last.op \in { "get_cached_embedding", "cache_embedding" } => ~last.raised

\* C30: get_cached_embedding consults the in-process tier first: when that
\* tier holds an unexpired entry for the text, the lookup returns that entry's
\* vector from the in-process tier and the shared tier is not read.
C30_FastTierFirst ==
  (/\ last.op = "get_cached_embedding"
   /\ \E e \in EntriesFor(last.before.memory_cache, last.args.content) :
        Unexpired(e, last.time))
    => /\ last.hit
       /\ last.tier = "memory"
       /\ \E e \in EntriesFor(last.before.memory_cache, last.args.content) :
            e.embedding = last.vec
       /\ "redis.get" \notin IdSet(last.calls)

(* ==================== batch ingestion (SpecBatch) ===================== *)
BatchMetadata == { <<"title", "T">>, <<"type", "page">> }
Chunk(id, content) == [ id |-> id, content |-> content, metadata |-> BatchMetadata ]

\* batches a caller passes: empty, valid entries, entries without id or
\* content, a whitespace-only content, the same id twice
Batches ==
  { <<>>,
    << Chunk(<<"d1">>, <<"a">>) >>,
    << Chunk(<<"d1">>, <<"a">>), Chunk(<<"d2">>, <<"b">>) >>,
    << Chunk(<<>>, <<"b">>), Chunk(<<"d1">>, <<"a">>) >>,
    << Chunk(<<"d1">>, <<"a">>), Chunk(<<"d2">>, <<>>) >>,
    << Chunk(<<>>, <<"a">>) >>,
    << Chunk(<<"d3">>, <<" ">>), Chunk(<<"d1">>, <<"a">>), Chunk(<<"d2">>, <<"b">>) >>,
    << Chunk(<<"d1">>, <<"a">>), Chunk(<<"d1">>, <<"b">>) >> }

BatchFaultSets ==
  { F \in FaultSets : F \subseteq { "get_or_create_collection", "redis_get",
                                    "redis_setex", "model_load", "encode_batch",
                                    "store_op" } }

AddDocumentsBatch ==
  AddDocumentsBatchIn(Batches, DefaultNames, BatchFaultSets, DupPolicies)

\* a single add_document, which leaves the embedding of its content cached
BatchAddDocument ==
  AddDocumentIn({ <<"d1">> }, { <<"a">> }, { BatchMetadata }, DefaultNames,
                { {} }, { "overwrite" })

NextBatch == AddDocumentsBatch \/ BatchAddDocument

SpecBatch == Init /\ [][NextBatch]_vars

\* the entries of a batch that have an id and content, in order, each with
\* the embedding of its own content
RECURSIVE ExpectedAddArgs(_)
ExpectedAddArgs(documents) ==
  IF documents = <<>> THEN <<>>
  ELSE LET doc == Head(documents) IN
       IF doc.id = <<>> \/ doc.content = <<>> THEN ExpectedAddArgs(Tail(documents))
       ELSE << [ id |-> doc.id, embedding |-> ModelEncode(doc.content),
                 content |-> doc.content, metadata |-> doc.metadata ] >>
            \o ExpectedAddArgs(Tail(documents))

BatchAdded(rec) ==
  /\ rec.op = "add_documents_batch"
  /\ rec.failed_at = None
  /\ "collection.add" \in IdSet(rec.calls)

\* C14: add_documents_batch returns the number of documents it added: the
\* size of the valid subset passed to collection.add, not the size of the batch.
C14_BatchCount ==
  (BatchAdded(last) /\ last.add_args # <<>>) => last.count = Len(last.add_args)

C16_BatchNeverRaises ==
  last.op = "add_documents_batch"
    => /\ ~last.raised
       /\ (last.failed_at # None => last.count = 0)
       /\ (last.count = 0 => store = last.before.store)
       /\ Cardinality({ i \in 1..Len(last.calls) : last.calls[i] = "collection.add" })
            <= 1
       /\ (last.count > 0 =>
             /\ last.calls[Len(last.calls)] = "collection.add"
             /\ \A i \in 1..Len(last.add_args) :
                  \E d \in store[HandleOf(last)] : d.id = last.add_args[i].id)

\* the encoder returned fewer vectors than texts: the IndexError is caught,
\* 0 is returned and the store holds what it held
C16_Witness ==
  /\ last.op = "add_documents_batch"
  /\ Len(last.args.documents) = 3
  /\ last.failed_at = "IndexError"
  /\ last.count = 0
  /\ ~last.raised
  /\ store = last.before.store

At(th, pc) == threads.pc[th] = pc
Goto(th, pc) == [threads EXCEPT !.pc[th] = pc]

\* rag_client.py line 56: if _chroma_collection is None
CheckCollection(th) ==
  /\ At(th, "start")
  /\ threads' = Goto(th, IF chroma_collection = None THEN "client" ELSE "model")
  /\ UNCHANGED << chroma_client, chroma_collection, store, embedding_model,
                  redis_enabled, redis_client, redis, memory_cache, now, last,
                  chunker, sync, pipeline, chat, workers >>

\* line 28: if _chroma_client is None
CheckClient(th) ==
  /\ At(th, "client")
  /\ threads' = Goto(th, IF chroma_client = None THEN "connect"
                         ELSE "get_collection")
  /\ UNCHANGED << chroma_client, chroma_collection, store, embedding_model,
                  redis_enabled, redis_client, redis, memory_cache, now, last,
                  chunker, sync, pipeline, chat, workers >>

\* line 32: _chroma_client = chromadb.HttpClient(...)
Connect(th) ==
  /\ At(th, "connect")
  /\ chroma_client' = "client"
  /\ threads' = [Goto(th, "heartbeat") EXCEPT
                   !.client_connects = threads.client_connects + 1]
  /\ UNCHANGED << chroma_collection, store, embedding_model,
                  redis_enabled, redis_client, redis, memory_cache, now, last,
                  chunker, sync, pipeline, chat, workers >>

\* line 42: _chroma_client.heartbeat()
Heartbeat(th) ==
  /\ At(th, "heartbeat")
  /\ threads' = Goto(th, "get_collection")
  /\ UNCHANGED << chroma_client, chroma_collection, store, embedding_model,
                  redis_enabled, redis_client, redis, memory_cache, now, last,
                  chunker, sync, pipeline, chat, workers >>

\* line 61: _chroma_collection = client.get_or_create_collection(...)
GetOrCreateCollection(th) ==
  /\ At(th, "get_collection")
  /\ chroma_collection' = "knowledge_base"
  /\ threads' = [Goto(th, "model") EXCEPT
                   !.collection_gets = threads.collection_gets + 1]
  /\ UNCHANGED << chroma_client, store, embedding_model,
                  redis_enabled, redis_client, redis, memory_cache, now, last,
                  chunker, sync, pipeline, chat, workers >>

\* embeddings.py line 21: if _embedding_model is None
CheckModel(th) ==
  /\ At(th, "model")
  /\ threads' = Goto(th, IF embedding_model = None THEN "load" ELSE "done")
  /\ UNCHANGED << chroma_client, chroma_collection, store, embedding_model,
                  redis_enabled, redis_client, redis, memory_cache, now, last,
                  chunker, sync, pipeline, chat, workers >>

\* line 24: _embedding_model = SentenceTransformer(...)
LoadModel(th) ==
  /\ At(th, "load")
  /\ embedding_model' = "model"
  /\ threads' = [Goto(th, "done") EXCEPT !.model_loads = threads.model_loads + 1]
  /\ UNCHANGED << chroma_client, chroma_collection, store,
                  redis_enabled, redis_client, redis, memory_cache, now, last,
                  chunker, sync, pipeline, chat, workers >>

NextThreads ==
  \E th \in Threads :
    \/ CheckCollection(th)
    \/ CheckClient(th)
    \/ Connect(th)
    \/ Heartbeat(th)
    \/ GetOrCreateCollection(th)
    \/ CheckModel(th)
    \/ LoadModel(th)

SpecThreads == Init /\ [][NextThreads]_vars

\* C17: under concurrent first use each process-wide singleton is created
\* once: the model is loaded, the store client is constructed and the
\* collection handle is obtained at most once, whatever the interleaving.
C17_CreatedOnce ==
  /\ threads.model_loads <= 1
  /\ threads.client_connects <= 1
  /\ threads.collection_gets <= 1

(* ========= concurrent engine calls and the cache (SpecWorkers) ========= *)
\* Each request runs on a pool thread with an event loop of its own (app.py
\* lines 44-45, 146-152), so two engine calls interleave at every read and write
\* of the cache tiers.  A step below is one access of a tier or of a global.
WorkerTexts == { <<"a">>, <<" ", "a">> }
WorkerOps == { "add_document", "search" }
WorkerIds == << <<"d1">>, <<"d2">>, <<"d3">> >>
WorkerFaultSets ==
  { F \in FaultSets : F \subseteq { "redis_ping", "redis_get", "redis_setex" } }

AllIdle == \A th \in Threads : workers[th].pc = "idle"
WorkerAt(th, pc) == workers[th].pc = pc
WorkerKey(th) == generate_cache_key("embedding", workers[th].text)

\* cache.py lines 89-90, 126-127: the except clause of a cache function logs
\* the exception; get_cached_embedding then returns None
lookup_raised(w, fault) ==
  [w EXCEPT !.pc = "encode", !.missed = TRUE, !.fired = w.fired \cup fault]
lookup_missed(w) == [w EXCEPT !.pc = "encode", !.missed = TRUE]
lookup_hit(w, entry) == [w EXCEPT !.pc = "store_call", !.vec = entry.embedding]

\* rag_client.py lines 82-100 and 215-234: the call validates its arguments,
\* acquires the collection and reaches get_cached_embedding with the content
\* as given (add_document) or the cleaned query (search)
WorkerCall(th) ==
  /\ WorkerAt(th, "idle")
  /\ \E op \in WorkerOps, input \in WorkerTexts, F \in WorkerFaultSets :
       \E c \in { get_chroma_collection(Globals, "knowledge_base", {}) } :
         /\ Apply(c.g)
         /\ workers' = [workers EXCEPT ![th] =
              [NoWorker EXCEPT !.pc = "lookup_client", !.op = op, !.faults = F,
                 !.text = IF op = "search" THEN clean_text(input) ELSE input]]
  /\ UNCHANGED << redis_enabled, now, last, threads, chunker, sync, pipeline, chat >>

\* cache.py lines 67 and 113: redis_client = await get_redis_client()
WorkerRedisClient(th) ==
  /\ WorkerAt(th, "lookup_client") \/ WorkerAt(th, "store_client")
  /\ \E r \in { get_redis_client(Globals, workers[th].faults) } :
       /\ Apply(r.g)
       /\ workers' = [workers EXCEPT ![th] =
            [@ EXCEPT !.client = r.val, !.fired = @ \cup r.fired,
               !.pc = IF WorkerAt(th, "lookup_client")
                      THEN (IF r.val # None THEN "redis_get" ELSE "memory_in")
                      ELSE (IF r.val # None THEN "redis_setex" ELSE "memory_set")]]
  /\ UNCHANGED << redis_enabled, now, last, threads, chunker, sync, pipeline, chat >>

\* lines 69-74: cached_data = await redis_client.get(cache_key), the entry
\* parsed and its expiry compared
WorkerRedisGet(th) ==
  /\ WorkerAt(th, "redis_get")
  /\ workers' = [workers EXCEPT ![th] =
       IF "redis_get" \in @.faults THEN lookup_raised(@, {"redis_get"})
       ELSE IF CacheHas(redis, WorkerKey(th))
       THEN IF Unexpired(CacheEntry(redis, WorkerKey(th)), now)
            THEN lookup_hit(@, CacheEntry(redis, WorkerKey(th)))
            ELSE [@ EXCEPT !.pc = "redis_delete"]
       ELSE [@ EXCEPT !.pc = "memory_in"]]
  /\ UNCHANGED << chroma_client, chroma_collection, store, embedding_model,
                  redis_enabled, redis_client, redis, memory_cache, now, last,
                  threads, chunker, sync, pipeline, chat >>

\* line 77: await redis_client.delete(cache_key), whatever the key holds by now
WorkerRedisDelete(th) ==
  /\ WorkerAt(th, "redis_delete")
  /\ redis' = CacheDel(redis, WorkerKey(th))
  /\ workers' = [workers EXCEPT ![th].pc = "memory_in"]
  /\ UNCHANGED << chroma_client, chroma_collection, store, embedding_model,
                  redis_enabled, redis_client, memory_cache, now, last,
                  threads, chunker, sync, pipeline, chat >>

\* line 80: if cache_key in _memory_cache
WorkerMemoryIn(th) ==
  /\ WorkerAt(th, "memory_in")
  /\ workers' = [workers EXCEPT ![th] =
       IF CacheHas(memory_cache, WorkerKey(th))
       THEN [@ EXCEPT !.pc = "memory_read"] ELSE lookup_missed(@)]
  /\ UNCHANGED << chroma_client, chroma_collection, store, embedding_model,
                  redis_enabled, redis_client, redis, memory_cache, now, last,
                  threads, chunker, sync, pipeline, chat >>

\* lines 81-84: entry = _memory_cache[cache_key] (a KeyError when another
\* thread removed the key since line 80) and the expiry compared
WorkerMemoryRead(th) ==
  /\ WorkerAt(th, "memory_read")
  /\ workers' = [workers EXCEPT ![th] =
       IF ~CacheHas(memory_cache, WorkerKey(th)) THEN lookup_raised(@, {})
       ELSE IF Unexpired(CacheEntry(memory_cache, WorkerKey(th)), now)
       THEN lookup_hit(@, CacheEntry(memory_cache, WorkerKey(th)))
       ELSE [@ EXCEPT !.pc = "memory_del"]]
  /\ UNCHANGED << chroma_client, chroma_collection, store, embedding_model,
                  redis_enabled, redis_client, redis, memory_cache, now, last,
                  threads, chunker, sync, pipeline, chat >>

\* line 87: del _memory_cache[cache_key], whatever entry the key holds by now
\* (a KeyError when the key is gone); the lookup returns None either way
WorkerMemoryDel(th) ==
  /\ WorkerAt(th, "memory_del")
  /\ memory_cache' = CacheDel(memory_cache, WorkerKey(th))
  /\ workers' = [workers EXCEPT ![th] = lookup_missed(@)]
  /\ UNCHANGED << chroma_client, chroma_collection, store, embedding_model,
                  redis_enabled, redis_client, redis, now, last,
                  threads, chunker, sync, pipeline, chat >>

\* rag_client.py lines 105-107 and 239-241: the embedding service and encode;
\* cache.py line 101: the expiry of the entry to be cached
WorkerEncode(th) ==
  /\ WorkerAt(th, "encode")
  /\ \E s \in { get_embedding_service(Globals, {}) } :
       /\ Apply(s.g)
       /\ workers' = [workers EXCEPT ![th] =
            [@ EXCEPT !.pc = "store_client", !.computed = TRUE,
                      !.vec = ModelEncode(workers[th].text),
                      !.expires_at = now + cache_ttl_embeddings]]
  /\ UNCHANGED << redis_enabled, now, last, threads, chunker, sync, pipeline, chat >>

\* the entry cache_embedding builds (cache.py lines 103-109)
WorkerEntry(th) ==
  [ key |-> WorkerKey(th), text |-> workers[th].text,
    embedding |-> workers[th].vec, expires_at |-> workers[th].expires_at ]

\* lines 114-119: await redis_client.setex(cache_key, ttl, entry.json()); an
\* exception skips the memory write and is swallowed (126-127)
WorkerRedisSetex(th) ==
  /\ WorkerAt(th, "redis_setex")
  /\ redis' = IF "redis_setex" \in workers[th].faults THEN redis
              ELSE CachePut(redis, WorkerEntry(th))
  /\ workers' = [workers EXCEPT ![th] =
       IF "redis_setex" \in @.faults
       THEN [@ EXCEPT !.pc = "store_call", !.fired = @ \cup {"redis_setex"}]
       ELSE [@ EXCEPT !.pc = "memory_set"]]
  /\ UNCHANGED << chroma_client, chroma_collection, store, embedding_model,
                  redis_enabled, redis_client, memory_cache, now, last,
                  threads, chunker, sync, pipeline, chat >>

\* variant: the memory tier keeps what it holds
WorkerMemorySetSkipped(th) ==
  /\ WorkerAt(th, "memory_set")
  /\ workers' = [workers EXCEPT ![th].pc = "store_call"]
  /\ UNCHANGED << chroma_client, chroma_collection, store, embedding_model,
                  redis_enabled, redis_client, redis, memory_cache, now, last,
                  threads, chunker, sync, pipeline, chat >>

\* line 123: _memory_cache[cache_key] = entry
WorkerMemorySet(th) ==
  /\ WorkerAt(th, "memory_set")
  /\ memory_cache' = CachePut(memory_cache, WorkerEntry(th))
  /\ workers' = [workers EXCEPT ![th].pc = "store_call"]
  /\ UNCHANGED << chroma_client, chroma_collection, store, embedding_model,
                  redis_enabled, redis_client, redis, now, last,
                  threads, chunker, sync, pipeline, chat >>

\* rag_client.py lines 114-125 and 247-282: collection.add, or collection.query
\* and the formatting of its answer; the call returns
WorkerStore(th) ==
  /\ WorkerAt(th, "store_call")
  /\ \E r \in { IF workers[th].op = "add_document"
                THEN collection_add(Globals, chroma_collection,
                       << [ id |-> WorkerIds[th], embedding |-> workers[th].vec,
                            content |-> workers[th].text,
                            metadata |-> {<<"type", "page">>} ] >>,
                       {}, "overwrite")
                ELSE [ g |-> Globals, ok |-> TRUE ] } :
       /\ Apply(r.g)
       /\ workers' = [workers EXCEPT ![th] =
            [@ EXCEPT !.pc = "done",
                      !.returned = IF r.ok THEN "result" ELSE "failure"]]
  /\ UNCHANGED << redis_enabled, now, last, threads, chunker, sync, pipeline, chat >>

\* an operation that ran to its end before the threads started
WorkersEarlier ==
  /\ AllIdle
  /\ AddDocumentIn({ <<"d0">> }, { <<"a">> }, { {<<"type", "page">>} },
                   DefaultNames, { {} }, { "overwrite" })

\* the clock advances between operations: an engine call takes milliseconds
WorkersTick == AllIdle /\ Tick

NextWorkers ==
  \/ WorkersEarlier
  \/ WorkersTick
  \/ RedisExpire
  \/ \E th \in Threads :
       \/ WorkerCall(th)
       \/ WorkerRedisClient(th)
       \/ WorkerRedisGet(th)
       \/ WorkerRedisDelete(th)
       \/ WorkerMemoryIn(th)
       \/ WorkerMemoryRead(th)
       \/ WorkerMemoryDel(th)
       \/ WorkerEncode(th)
       \/ WorkerRedisSetex(th)
       \/ WorkerMemorySet(th)
       \/ WorkerStore(th)

SpecWorkers == Init /\ [][NextWorkers]_vars

\* every thread has returned, every lookup missed, and all embedded one text
RacedOnOneText ==
  \A th \in Threads :
    /\ workers[th].pc = "done"
    /\ workers[th].missed
    /\ workers[th].text = workers[1].text

\* the tier holds one entry under the key, with the embedding of its text
HoldsOne(cache, text) ==
  /\ Cardinality({ e \in cache : e.key = generate_cache_key("embedding", text) }) = 1
  /\ \A e \in cache :
       e.key = generate_cache_key("embedding", text)
         => e.embedding = ModelEncode(text)

\* C35: when concurrent engine operations all miss the embedding cache for the
\* same text, each computes the embedding and each completes successfully, and
\* afterwards (no call of the shared tier having raised) each cache tier in use
\* holds one entry under the key of the text, with the embedding of that text.
C35_RaceIsHarmless ==
  RacedOnOneText =>
    /\ \A th \in Threads :
         /\ workers[th].computed
         /\ workers[th].vec = ModelEncode(workers[th].text)
         /\ workers[th].returned = "result"
    /\ (\A th \in Threads : workers[th].fired = {})
         => /\ HoldsOne(memory_cache, workers[1].text)
            /\ redis_client # None => HoldsOne(redis, workers[1].text)

\* both threads missed, the first wrote both tiers before the second wrote
\* either: the tiers hold the second writer's entry alone
C35_Witness ==
  /\ RacedOnOneText
  /\ \A th \in Threads : workers[th].computed /\ workers[th].fired = {}
  /\ workers[1].text = <<"a">>
  /\ workers[1].op # workers[2].op
  /\ redis_client # None
  /\ HoldsOne(redis, <<"a">>)
  /\ HoldsOne(memory_cache, <<"a">>)

(* ============ callers that name their collection (SpecNames) =========== *)
\* RAGClient passes its collection_name to every engine function; callers
\* here use both collections of the store and nothing fails.
NamedAddDocument ==
  AddDocumentIn({ <<"d1">>, <<"d2">> }, { <<"a">> }, Metadatas \ { {} },
                CollectionNames, { {} }, DupPolicies)

NamedSearch ==
  SearchIn({ <<"a">> }, 1..MaxTopK, { {} }, CollectionNames, { {} }, Distances)

NamedDeleteDocuments ==
  DeleteDocumentsIn({ << <<"d1">> >> }, CollectionNames, { {} })

NextNames == NamedAddDocument \/ NamedSearch \/ NamedDeleteDocuments

SpecNames == Init /\ [][NextNames]_vars

\* C19: an operation called with collection_name = N works on collection N:
\* a document add_document reports stored is in collection N, and every row
\* search was answered with is a document of collection N, whichever
\* collection earlier operations of the process used.
C19_NameSelectsCollection ==
  /\ (last.op = "add_document" /\ last.ret)
       => \E d \in store[last.args.collection_name] :
             d.id = last.args.document_id
  /\ last.op = "search"
       => \A i \in 1..Len(last.answer.rows) :
             last.answer.rows[i] \in last.before.store[last.args.collection_name]

(* ================= the health check (SpecHealth) ====================== *)
\* The health check runs between writes to the store.  list_collections is
\* called only after the heartbeat has failed, so a health check may meet one
\* fault more than the other operations.
StoreFaults == { "chroma_ctor", "chroma_heartbeat", "get_or_create_collection",
                 "list_collections", "collection_count", "store_op" }
HealthFaultSets ==
  { F \in SUBSET StoreFaults : Cardinality(F) <= MaxFaults + 1 }

HealthCheck == HealthCheckIn(HealthFaultSets)

HealthAddDocument ==
  AddDocumentIn({ <<"d1">>, <<"d2">> }, { <<"a">> }, Metadatas \ { {} },
                DefaultNames, FaultSets \cap SUBSET StoreFaults, DupPolicies)

NextHealth == HealthCheck \/ HealthAddDocument

SpecHealth == Init /\ [][NextHealth]_vars

\* the last call of the recorded operation
LastCall(rec) == rec.calls[Len(rec.calls)]

\* C20: health_check never raises, and it returns True only if within the
\* call a liveness probe answered (the heartbeat, or list_collections after a
\* failed heartbeat) and the collection.count() that follows it answered.
C20_HealthTrueOnlyIfProbed ==
  last.op = "health_check"
    => /\ ~last.raised
       /\ last.failed_at # None => ~last.ret
       /\ last.ret
            => /\ \/ /\ "client.heartbeat" \in IdSet(last.calls)
                     /\ "chroma_heartbeat" \notin last.fired
                  \/ /\ "client.list_collections" \in IdSet(last.calls)
                     /\ "list_collections" \notin last.fired
               /\ LastCall(last) = "collection.count"
               /\ "collection_count" \notin last.fired

\* the heartbeat failed, list_collections answered, and the check returned True
C20_Witness ==
  /\ last.op = "health_check"
  /\ last.ret
  /\ "chroma_heartbeat" \in last.fired
  /\ "client.list_collections" \in IdSet(last.calls)

\* C32: on every call of health_check in which the heartbeat fails, the first
\* call of the process included, list_collections is attempted before the
\* check returns.
C32_AlternateProbeTried ==
  (last.op = "health_check" /\ "chroma_heartbeat" \in last.fired)
    => "client.list_collections" \in IdSet(last.calls)

(* ====================== chunk_text (SpecChunk) ======================== *)
\* texts of letters, periods and newlines, and short texts with blanks
TextsOver(alphabet, n) == UNION { [1..k -> alphabet] : k \in 0..n }
ChunkTexts == TextsOver({ "a", ".", "\n" }, MaxTextLen) \cup TextsOver({ "a", " " }, 3)
ChunkFunctions == { "utils", "DataProcessor" }

\* a call of chunk_text: a text that fits is returned at once, otherwise the
\* loop begins at start = 0
ChunkText ==
  /\ chunker.pc = "idle"
  /\ \E fn \in ChunkFunctions, text \in ChunkTexts, max_chunk_size \in 1..MaxChunkSize :
       \E overlap \in 0..(max_chunk_size - 1) :
         chunker' = [ pc |-> IF Len(text) <= max_chunk_size THEN "done" ELSE "loop",
                      fn |-> fn, text |-> text, max_chunk_size |-> max_chunk_size,
                      overlap |-> overlap, start |-> 0,
                      chunks |-> IF Len(text) <= max_chunk_size THEN short_text(text)
                                 ELSE <<>>,
                      windows |-> <<>> ]
  /\ UNCHANGED << chroma_client, chroma_collection, store, embedding_model,
                  redis_enabled, redis_client, redis, memory_cache, now, last,
                  threads, sync, pipeline, chat, workers >>

\* one iteration of `while start < len(text)`: the window's end, its trimmed
\* chunk, the next start, and the tests that leave the loop
ChunkIterate ==
  /\ chunker.pc = "loop"
  /\ Len(chunker.windows) < MaxIterations
  /\ LET end == window_end(chunker.fn, chunker.text, chunker.start,
                           chunker.max_chunk_size)
         chunk == strip(Slice(chunker.text, chunker.start, end))
         start == next_start(end, chunker.overlap)
     IN chunker' = [chunker EXCEPT
          !.chunks = IF chunk # <<>> THEN Append(@, chunk) ELSE @,
          !.windows = Append(@, [ start |-> chunker.start, end |-> end ]),
          !.start = start,
          !.pc = IF start >= Len(chunker.text) THEN "done" ELSE "loop" ]
  /\ UNCHANGED << chroma_client, chroma_collection, store, embedding_model,
                  redis_enabled, redis_client, redis, memory_cache, now, last,
                  threads, sync, pipeline, chat, workers >>

\* `return chunks`
ChunkReturn ==
  /\ chunker.pc = "done"
  /\ chunker' = NoChunker
  /\ UNCHANGED << chroma_client, chroma_collection, store, embedding_model,
                  redis_enabled, redis_client, redis, memory_cache, now, last,
                  threads, sync, pipeline, chat, workers >>

NextChunk == ChunkText \/ ChunkIterate \/ ChunkReturn

SpecChunk == Init /\ [][NextChunk]_vars

\* C27: chunk_text on a text no longer than max_chunk_size returns the
\* one-element list holding the text itself, untrimmed.
C27_ShortTextUnchanged ==
  (chunker.pc = "done" /\ Len(chunker.text) <= chunker.max_chunk_size)
    => chunker.chunks = << chunker.text >>

\* a text with a leading blank that fits in one chunk was returned as it is
C27_Witness ==
  /\ chunker.pc = "done"
  /\ chunker.text = << " ", "a" >>
  /\ chunker.max_chunk_size = 2
  /\ chunker.chunks = << << " ", "a" >> >>

C29_StartIncreases ==
  /\ \A i \in 1..(Len(chunker.windows) - 1) :
       chunker.windows[i + 1].start > chunker.windows[i].start
  /\ chunker.windows # <<>>
       => chunker.start > chunker.windows[Len(chunker.windows)].start

(* ==================== document ids (SpecIds) ========================== *)
\* Records of the three sources are processed into documents, in any order.
process_record(type, source_id, chunks) ==
  IF type = "confluence" THEN process_confluence_page(source_id, chunks)
  ELSE IF type = "jira" THEN process_jira_issue(source_id, chunks)
  ELSE process_ticket(source_id, chunks)

ProcessRecord ==
  /\ pipeline.records < MaxRecords
  /\ \E type \in SourceTypes, total_chunks \in 1..MaxChunks :
       \E source_id \in SourceIds(type) :
         LET documents == process_record(type, source_id,
                                         [ i \in 1..total_chunks |-> <<"a">> ])
         IN pipeline' =
              [ records |-> pipeline.records + 1,
                produced |-> pipeline.produced \cup
                  { [ type |-> type, source_id |-> source_id,
                      chunk_index |-> i - 1, id |-> documents[i].id ] :
                    i \in 1..total_chunks } ]
  /\ UNCHANGED << chroma_client, chroma_collection, store, embedding_model,
                  redis_enabled, redis_client, redis, memory_cache, now, last,
                  threads, chunker, sync, chat, workers >>

NextIds == ProcessRecord

SpecIds == Init /\ [][NextIds]_vars

\* C33: two documents the pipeline produced for distinct (source type, source
\* id, chunk index) triples never have the same id.
C33_IdsUnique ==
  \A a, b \in pipeline.produced :
    << a.type, a.source_id, a.chunk_index >> # << b.type, b.source_id, b.chunk_index >>
      => a.id # b.id

\* page 1 was cut into several chunks and page 10 into one: chunk 0 of page 1
\* is conf_1_0 and page 10 is conf_10
C33_Witness ==
  /\ \E a \in pipeline.produced :
       /\ a.type = "confluence" /\ a.source_id = << "1" >> /\ a.chunk_index = 0
       /\ a.id = << "c", "o", "n", "f", "_", "1", "_", "0" >>
  /\ \E b \in pipeline.produced :
       /\ b.type = "confluence" /\ b.source_id = << "1", "0" >>
       /\ b.id = << "c", "o", "n", "f", "_", "1", "0" >>

(* ======================= the sync job (SpecSync) ====================== *)
\* Pages are edited at the source, a page's documents are ingested by a caller
\* of the engine, and the sync jobs run, in any order.
SyncFaults == { "collection_count", "store_op", "get_spaces", "get_pages",
                "get_resolved_issues" }
SyncFaultSets == { F \in SUBSET SyncFaults : Cardinality(F) <= MaxFaults }

\* a page gets new content at the source
EditPage ==
  /\ \E k \in EditableSpaces :
       \E v \in PageContents \ { sync.pages[k].chunks } :
         sync' = [sync EXCEPT !.pages[k] = [ chunks |-> v, previous |-> @.chunks ]]
  /\ UNCHANGED << chroma_client, chroma_collection, store, embedding_model,
                  redis_enabled, redis_client, redis, memory_cache, now, last,
                  threads, chunker, pipeline, chat, workers >>

\* the documents of a page's present version are added through the engine
IngestPage ==
  /\ \E k \in EditableSpaces :
       /\ sync.pages[k].chunks # <<>>
       /\ \E r \in { add_documents_batch(Globals,
                         process_confluence_page(PageId(k), sync.pages[k].chunks),
                         "knowledge_base", {}, "overwrite", now) } :
            Apply(r.g)
  /\ UNCHANGED << redis_enabled, now, last, threads, chunker, sync, pipeline, chat, workers >>

\* SyncManager.run_sync, incremental or full, with or without Jira
RunSync ==
  /\ sync.run < MaxRuns
  /\ \E incremental \in BOOLEAN, sync_jira \in BOOLEAN, F \in SyncFaultSets :
       \E r \in { run_sync(Globals, sync.pages, incremental, sync_jira, F) } :
          /\ r.fired = F
          /\ Apply(r.g)
          /\ sync' = [sync EXCEPT
               !.job = "run_sync", !.run = @ + 1, !.incremental = incremental,
               !.sync_jira = sync_jira, !.fired = r.fired, !.trace = r.trace,
               !.result = r.result, !.health = r.health,
               !.confluence_failed = r.confluence_failed,
               !.jira_failed = r.jira_failed, !.jira_ran = r.jira_ran,
               !.jira_returned = r.jira_returned,
               !.store_after = r.g.store, !.pages_at_run = sync.pages ]
  /\ UNCHANGED << redis_enabled, now, last, threads, chunker, pipeline, chat, workers >>

\* ZohoDeskSyncManager.sync_zoho_desk_data on one batch of one ticket
ZohoSync ==
  /\ sync.run < MaxRuns
  /\ \E incremental \in BOOLEAN :
       sync' = [sync EXCEPT
         !.job = "zoho", !.run = @ + 1, !.incremental = incremental,
         !.sync_jira = FALSE, !.fired = {},
         !.trace = sync_tickets_batch(process_ticket(<< "7" >>, TicketChunks),
                                      incremental),
         !.result = NoResult, !.health = FALSE, !.confluence_failed = FALSE,
         !.jira_failed = FALSE, !.jira_ran = FALSE, !.jira_returned = 0,
         !.store_after = store, !.pages_at_run = sync.pages ]
  /\ UNCHANGED << chroma_client, chroma_collection, store, embedding_model,
                  redis_enabled, redis_client, redis, memory_cache, now, last,
                  threads, chunker, pipeline, chat, workers >>

NextSync == EditPage \/ IngestPage \/ RunSync \/ ZohoSync

SpecSync == Init /\ [][NextSync]_vars

\* C21: in every result of run_sync, success is True exactly when the total
\* count is above 0 or the errors list is empty.
C21_SuccessRule ==
  sync.job = "run_sync"
    => (sync.result.success
          <=> (sync.result.total_count > 0 \/ sync.result.errors = <<>>))

\* a run that processed nothing and recorded an error is not a success
C21_Witness ==
  /\ sync.job = "run_sync"
  /\ sync.result.total_count = 0
  /\ sync.result.errors # <<>>
  /\ ~sync.result.success

\* C22: when the Confluence sync fails, run_sync still runs the Jira sync if
\* Jira is enabled, and the result carries the count the Jira sync returned.
C22_JiraRunsAfterConfluenceFails ==
  (sync.job = "run_sync" /\ sync.health /\ sync.confluence_failed /\ sync.sync_jira)
    => /\ sync.jira_ran
       /\ sync.result.jira_count = sync.jira_returned
       /\ ~sync.jira_failed
            => \E i \in 1..Len(sync.trace) :
                  sync.trace[i] = Event("add_documents_batch",
                                        existing_ids(process_jira_issue(<< "A", "-", "1" >>, JiraChunks)),
                                        TRUE)

\* the spaces could not be listed and the Jira batch was still handed over
C22_Witness ==
  /\ sync.job = "run_sync"
  /\ "get_spaces" \in sync.fired
  /\ sync.confluence_failed
  /\ sync.jira_ran
  /\ sync.trace # <<>>

\* C23: when the sync of a source fails, the result of run_sync has an entry
\* for the failure in its errors list.
C23_FailureRecorded ==
  (sync.job = "run_sync" /\ (sync.confluence_failed \/ sync.jira_failed))
    => sync.result.errors # <<>>

\* C24: in an incremental sync every add_documents_batch of a batch comes
\* right after a delete_documents on the same ids that has run to its end; in
\* a full sync delete_documents is not called.
C24_DeleteBeforeAdd ==
  sync.job # "none"
    => \A i \in 1..Len(sync.trace) :
         /\ (sync.incremental /\ sync.trace[i].fn = "add_documents_batch")
              => /\ i > 1
                 /\ sync.trace[i - 1].fn = "delete_documents"
                 /\ sync.trace[i - 1].ids = sync.trace[i].ids
                 /\ sync.trace[i - 1].completed
         /\ ~sync.incremental => sync.trace[i].fn # "delete_documents"

\* the (id, content) pairs a collection holds
IdContent(docs) == { << d.id, d.content >> : d \in docs }

\* an incremental run without a failed call, made on the source and the store
\* as such a run left them
RepeatedRun ==
  /\ sync'.run = sync.run + 1
  /\ sync'.job = "run_sync" /\ sync'.incremental /\ sync'.fired = {}
  /\ sync.job = "run_sync" /\ sync.incremental /\ sync.fired = {}
  /\ sync'.sync_jira = sync.sync_jira
  /\ sync.pages = sync.pages_at_run
  /\ store = sync.store_after

\* C25: the incremental sync is idempotent: a second incremental run on
\* unchanged source data, with no call failing in either run, leaves every
\* collection with the (id, content) pairs the first run left.
C25_IncrementalIdempotent ==
  [][ RepeatedRun
        => \A n \in CollectionNames : IdContent(store'[n]) = IdContent(store[n]) ]_vars

\* two incremental runs in a row, each of which called delete_documents for a
\* page of two chunks
C25_Witness ==
  /\ sync.run = 2
  /\ sync.job = "run_sync" /\ sync.incremental /\ sync.fired = {}
  /\ sync.pages = sync.pages_at_run
  /\ store = sync.store_after
  /\ Len(sync.pages["A"].chunks) = 2
  /\ sync.pages["A"].previous = <<>>
  /\ Len(sync.trace) >= 4

\* the documents of a page's version
PageDocuments(k, chunks) == IdContent({ process_confluence_page(PageId(k), chunks)[i] :
                                        i \in 1..Len(chunks) })

\* C26: after an incremental sync has processed a page whose content changed,
\* the store holds no document of the page's previous version, also when the
\* new version has fewer chunks.
C26_ModifiedRecordReplaced ==
  (/\ sync.job = "run_sync" /\ sync.incremental /\ sync.fired = {}
   /\ sync.pages = sync.pages_at_run
   /\ store = sync.store_after)
    => \A k \in SpaceKeys :
         (sync.pages[k].chunks # <<>> /\ sync.pages[k].previous # sync.pages[k].chunks)
           => IdContent(store["knowledge_base"])
                \cap (PageDocuments(k, sync.pages[k].previous)
                        \ PageDocuments(k, sync.pages[k].chunks)) = {}

\* an incremental run of the sync job, as a step
IncrementalRun ==
  /\ sync'.run = sync.run + 1
  /\ sync'.job = "run_sync"
  /\ sync'.incremental

Held(docs, id) == \E d \in docs : d.id = id

\* C37: an incremental update never loses documents: each document id of a
\* batch that was in the store before the batch's delete-then-add is in the
\* store after it, also when add_documents_batch fails and returns 0.  (The
\* store changes only in these steps, so an id of a batch held before the run
\* and not after it was lost by the step of its batch.)
C37_NoDocumentLost ==
  [][ IncrementalRun
        => \A i \in 1..Len(sync'.trace) :
             sync'.trace[i].fn = "add_documents_batch"
               => \A id \in IdSet(sync'.trace[i].ids) :
                    Held(store["knowledge_base"], id)
                      => Held(store'["knowledge_base"], id) ]_vars

(* ===================== the chat surface (SpecChat) ==================== *)
\* Documents are added to the knowledge base and requests are handled, one at
\* a time.
ChatQueries == { << "hi" >>, << "a" >> }
ChatFaults == { "redis_ping", "redis_get", "redis_setex", "store_op",
                "search_rag", "chat_postMessage" }
LlmOutcomes == { LlmReply(<< "r" >>, FALSE), LlmReply(<< "r", " " >>, TRUE),
                 LlmReply(<< " " >>, FALSE), LlmFailure("other_shape"),
                 LlmFailure("timeout"), LlmFailure("client_error"),
                 LlmFailure("error") }

ChatAddDocument ==
  AddDocumentIn({ << "d1" >> }, { << "a" >> }, Metadatas \ { {} }, DefaultNames,
                { {} }, { "overwrite" })

HandleRequest ==
  /\ chat.requests < MaxRequests
  /\ \E query \in ChatQueries, rag_enabled \in BOOLEAN, llm \in LlmOutcomes :
    \E F \in { S \in SUBSET ChatFaults : Cardinality(S) <= MaxFaults } :
      \E answer \in StoreAnswers(store[HandleFor("knowledge_base")], {}, 3, { 0 }) :
        \E r \in { process_llm_request_async(Globals, chat.caches, query,
                                             rag_enabled, F, answer.rows,
                                             answer.distances, answer.reported,
                                             llm, now) } :
          /\ r.request.fired = F
          /\ Apply(r.g)
          /\ chat' = [ caches |-> r.c, request |-> r.request,
                       requests |-> chat.requests + 1 ]
          /\ UNCHANGED << redis_enabled, now, last, threads, chunker, sync, pipeline, workers >>

NextChat == ChatAddDocument \/ HandleRequest

SpecChat == Init /\ [][NextChat]_vars

\* C34: every request handled calls the LLM exactly once, whether the context
\* lookup was skipped, hit the cache, searched and found documents, found
\* none, or raised; the call carries a context exactly when the lookup was a
\* cache hit or the search found documents.
C34_LlmCalledOnce ==
  chat.request.handled
    => /\ Len(chat.request.llm_calls) = 1
       /\ chat.request.llm_calls[1] # <<>>
            <=> (chat.request.cache_hit \/ chat.request.found > 0)

\* the lookup raised and the LLM was called without context
C34_Witness ==
  /\ chat.request.handled
  /\ chat.request.rag_raised
  /\ chat.request.llm_calls = << <<>> >>
  /\ chat.request.http

\* every text sent in place of a reply of the model
FallbackTexts == { Fallback[k] : k \in DOMAIN Fallback }

\* the contents a well-formed reply of the model leaves call_llm_async with
GenuineContents ==
  { reply_content(llm) : llm \in { o \in LlmOutcomes : o.kind = "reply" } }

\* C38: every entry of the response cache holds the content of a well-formed
\* reply of the model, and so does every response served from the cache; no
\* text that call_llm_async or the handler sends on a failure is among them.
C38_OnlyModelOutputCached ==
  /\ \A e \in chat.caches.llm_redis \cup chat.caches.llm_memory :
       /\ e.response \in GenuineContents
       /\ e.response \notin FallbackTexts \cup { HandlerErrorText }
  /\ chat.request.from_cache
       => /\ chat.request.response \in GenuineContents
          /\ chat.request.response \notin FallbackTexts \cup { HandlerErrorText }

\* a reply was cached by one request and served from the cache to a later one
C38_Witness ==
  /\ chat.request.from_cache
  /\ chat.request.response = << "r" >>
  /\ \E e \in chat.caches.llm_memory : e.response = << "r" >>

====
